---- MODULE Spec2Model ----
(***************************************************************************)
(* Model of the invoice forwarder (forward-invoices.mjs): one or more runs *)
(* of main() against a mailbox served by the Gmail API.                    *)
(*                                                                         *)
(* JavaScript strings are sequences of code points, byte buffers are       *)
(* sequences of numbers 0..255.                                            *)
(***************************************************************************)
EXTENDS Integers, Sequences, FiniteSets, TLC

\* Bounds of the model.
MaxMsgs == 2
MaxRawLen == 2
MaxRuns == 2
\* The last reading of the clock: each call on a manager and each command
\* takes one tick.
MaxClock == 2
MaxCommands == 3

(***************************************************************************)
(* String literals of the source, as code points.                          *)
(***************************************************************************)
\* 'inbox@invoices.software-moling.com'
FORWARD_TO ==
  <<105, 110, 98, 111, 120, 64, 105, 110, 118, 111, 105, 99, 101, 115, 46,
    115, 111, 102, 116, 119, 97, 114, 101, 45, 109, 111, 108, 105, 110, 103,
    46, 99, 111, 109>>
\* 'To: '
ToPrefix == <<84, 111, 58, 32>>
\* 'Subject: Fwd: '
SubjectPrefix == <<83, 117, 98, 106, 101, 99, 116, 58, 32, 70, 119, 100, 58, 32>>
\* 'Content-Type: message/rfc822'
ContentTypeLine ==
  <<67, 111, 110, 116, 101, 110, 116, 45, 84, 121, 112, 101, 58, 32, 109, 101,
    115, 115, 97, 103, 101, 47, 114, 102, 99, 56, 50, 50>>
\* '.pdf'
PdfSuffix == <<46, 112, 100, 102>>
\* 'subject', 'from'
SubjectName == <<115, 117, 98, 106, 101, 99, 116>>
FromName == <<102, 114, 111, 109>>
\* '\n'
NewLine == <<10>>
\* 'ABCDEFGHIJKLMNOPQRSTUVWXYZabcdefghijklmnopqrstuvwxyz0123456789+/'
Base64Alphabet ==
  [k \in 1..64 |->
     IF k <= 26 THEN 64 + k
     ELSE IF k <= 52 THEN 70 + k
     ELSE IF k <= 62 THEN k - 5
     ELSE IF k = 63 THEN 43 ELSE 47]

(***************************************************************************)
(* String and buffer primitives of the runtime.                            *)
(***************************************************************************)
\* String.prototype.toLowerCase on the ASCII range.
ToLowerCase(s) ==
  [k \in 1..Len(s) |-> IF s[k] \in 65..90 THEN s[k] + 32 ELSE s[k]]

\* String.prototype.endsWith.
EndsWith(s, suffix) ==
  /\ Len(s) >= Len(suffix)
  /\ SubSeq(s, Len(s) - Len(suffix) + 1, Len(s)) = suffix

\* Array.prototype.includes.
Includes(arr, x) == \E k \in 1..Len(arr) : arr[k] = x

\* Array.prototype.join('\n').
RECURSIVE JoinLines(_)
JoinLines(lines) ==
  IF Len(lines) = 0 THEN <<>>
  ELSE IF Len(lines) = 1 THEN lines[1]
  ELSE lines[1] \o NewLine \o JoinLines(Tail(lines))

IsCont(bs, k, lo, hi) == k <= Len(bs) /\ bs[k] >= lo /\ bs[k] <= hi

\* Lower and upper bound of the second byte of a multi-byte sequence.
SecondLo(b) == IF b = 224 THEN 160 ELSE IF b = 240 THEN 144 ELSE 128
SecondHi(b) == IF b = 237 THEN 159 ELSE IF b = 244 THEN 143 ELSE 191

\* Buffer.prototype.toString('utf8'): every maximal invalid subpart becomes
\* U+FFFD (65533).
RECURSIVE Utf8Decode(_)
Utf8Decode(bs) ==
  IF bs = <<>> THEN <<>>
  ELSE
    LET b == bs[1]
        rest(n) == Utf8Decode(SubSeq(bs, n + 1, Len(bs)))
    IN
    IF b < 128 THEN <<b>> \o rest(1)
    ELSE IF b >= 194 /\ b <= 223 THEN
      IF IsCont(bs, 2, 128, 191)
      THEN <<(b - 192) * 64 + (bs[2] - 128)>> \o rest(2)
      ELSE <<65533>> \o rest(1)
    ELSE IF b >= 224 /\ b <= 239 THEN
      IF ~IsCont(bs, 2, SecondLo(b), SecondHi(b)) THEN <<65533>> \o rest(1)
      ELSE IF ~IsCont(bs, 3, 128, 191) THEN <<65533>> \o rest(2)
      ELSE <<(b - 224) * 4096 + (bs[2] - 128) * 64 + (bs[3] - 128)>> \o rest(3)
    ELSE IF b >= 240 /\ b <= 244 THEN
      IF ~IsCont(bs, 2, SecondLo(b), SecondHi(b)) THEN <<65533>> \o rest(1)
      ELSE IF ~IsCont(bs, 3, 128, 191) THEN <<65533>> \o rest(2)
      ELSE IF ~IsCont(bs, 4, 128, 191) THEN <<65533>> \o rest(3)
      ELSE <<(b - 240) * 262144 + (bs[2] - 128) * 4096
               + (bs[3] - 128) * 64 + (bs[4] - 128)>> \o rest(4)
    ELSE <<65533>> \o rest(1)

\* Buffer.from(string): the UTF-8 encoding of the string, the encodings of
\* its code points one after another.
RECURSIVE Utf8Encode(_)
Utf8Encode(s) ==
  IF s = <<>> THEN <<>>
  ELSE IF Len(s) = 1 THEN
    LET c == s[1] IN
    IF c < 128 THEN <<c>>
    ELSE IF c < 2048 THEN <<192 + (c \div 64), 128 + (c % 64)>>
    ELSE IF c < 65536 THEN
      <<224 + (c \div 4096), 128 + ((c \div 64) % 64), 128 + (c % 64)>>
    ELSE <<240 + (c \div 262144), 128 + ((c \div 4096) % 64),
           128 + ((c \div 64) % 64), 128 + (c % 64)>>
  ELSE LET h == Len(s) \div 2
       IN Utf8Encode(SubSeq(s, 1, h)) \o Utf8Encode(SubSeq(s, h + 1, Len(s)))

\* Buffer.prototype.toString('base64'): standard alphabet, '=' padding;
\* groups of three bytes are encoded on their own.
RECURSIVE Base64Encode(_)
Base64Encode(bs) ==
  IF bs = <<>> THEN <<>>
  ELSE IF Len(bs) = 1 THEN
    <<Base64Alphabet[(bs[1] \div 4) + 1],
      Base64Alphabet[((bs[1] % 4) * 16) + 1], 61, 61>>
  ELSE IF Len(bs) = 2 THEN
    <<Base64Alphabet[(bs[1] \div 4) + 1],
      Base64Alphabet[((bs[1] % 4) * 16 + (bs[2] \div 16)) + 1],
      Base64Alphabet[((bs[2] % 16) * 4) + 1], 61>>
  ELSE IF Len(bs) = 3 THEN
    <<Base64Alphabet[(bs[1] \div 4) + 1],
      Base64Alphabet[((bs[1] % 4) * 16 + (bs[2] \div 16)) + 1],
      Base64Alphabet[((bs[2] % 16) * 4 + (bs[3] \div 64)) + 1],
      Base64Alphabet[(bs[3] % 64) + 1]>>
  ELSE LET h == 3 * (((Len(bs) \div 3) + 1) \div 2)
       IN Base64Encode(SubSeq(bs, 1, h)) \o Base64Encode(SubSeq(bs, h + 1, Len(bs)))

\* String.prototype.replace(/c/g, d).
ReplaceAll(s, c, d) == [k \in 1..Len(s) |-> IF s[k] = c THEN d ELSE s[k]]

\* String.prototype.replace(/=+$/, '').
RECURSIVE StripTrailingPad(_)
StripTrailingPad(s) ==
  IF s # <<>> /\ s[Len(s)] = 61
  THEN StripTrailingPad(SubSeq(s, 1, Len(s) - 1))
  ELSE s

\* The 6-bit value of a base64 character; the decoder of Buffer.from(s,
\* 'base64') accepts the URL-safe characters '-' and '_' as well.
Sextet(c) ==
  IF c = 45 THEN 62
  ELSE IF c = 95 THEN 63
  ELSE (CHOOSE k \in 1..64 : Base64Alphabet[k] = c) - 1

\* Buffer.from(string, 'base64'): decoding stops at the first '='.
RECURSIVE Base64Decode(_)
Base64Decode(s) ==
  LET n == IF \E k \in 1..Len(s) : s[k] = 61
           THEN (CHOOSE k \in 1..Len(s) :
                   s[k] = 61 /\ \A j \in 1..(k - 1) : s[j] # 61) - 1
           ELSE Len(s)
      a == Sextet(s[1])
      b == Sextet(s[2])
      c == Sextet(s[3])
      d == Sextet(s[4])
  IN
  IF n < 2 THEN <<>>
  ELSE IF n = 2 THEN <<a * 4 + (b \div 16)>>
  ELSE IF n = 3 THEN <<a * 4 + (b \div 16), (b % 16) * 16 + (c \div 4)>>
  ELSE <<a * 4 + (b \div 16), (b % 16) * 16 + (c \div 4), (c % 4) * 64 + d>>
       \o Base64Decode(SubSeq(s, 5, Len(s)))

(***************************************************************************)
(* Command line (process.argv.slice(2)).                                   *)
(***************************************************************************)
ArgVectors == { <<>>, <<"--dry-run">>, <<"--execute">> }

\* Variant of isDryRun: forwarding is the default and --dry-run turns it off.
isDryRunByFlag(argv) == Includes(argv, "--dry-run")

isDryRun(argv) == ~Includes(argv, "--execute")

(***************************************************************************)
(* Messages as the Gmail API returns them in format 'full': a payload part *)
(* with headers and, when multipart, child parts.  A part without a file   *)
(* name carries the empty string.                                          *)
(***************************************************************************)
\* 'a.pdf', 'A.PDF', 'a.png', 'a.dat', 'a.pdfx', 'pdf'
NamePdf == <<97, 46, 112, 100, 102>>
NamePdfUpper == <<65, 46, 80, 68, 70>>
NamePng == <<97, 46, 112, 110, 103>>
NameDat == <<97, 46, 100, 97, 116>>
NamePdfx == <<97, 46, 112, 100, 102, 120>>
NameBarePdf == <<112, 100, 102>>

Leaf(filename, mimeType) ==
  [filename |-> filename, mimeType |-> mimeType, hasParts |-> FALSE, parts |-> <<>>]
Multi(parts) ==
  [filename |-> <<>>, mimeType |-> "multipart/mixed", hasParts |-> TRUE, parts |-> parts]

\* 'Subject' / 'SUBJECT' / 'From' header names.
Header(name, value) == [name |-> name, value |-> value]
HdrSubject(v) == Header(<<83, 117, 98, 106, 101, 99, 116>>, v)
HdrSubjectUpper(v) == Header(<<83, 85, 66, 74, 69, 67, 84>>, v)
HdrFrom(v) == Header(<<70, 114, 111, 109>>, v)

Payload(headers, part) ==
  [headers |-> headers, filename |-> part.filename, mimeType |-> part.mimeType,
   hasParts |-> part.hasParts, parts |-> part.parts]

TextPart == Leaf(<<>>, "text/plain")

\* text + PDF attachment; subject 'R1', from 'x'
PdfPayload ==
  Payload(<<HdrFrom(<<120>>), HdrSubject(<<82, 49>>)>>,
          Multi(<<TextPart, Leaf(NamePdf, "application/pdf")>>))
\* only an image attachment; subject 'I'
PngPayload ==
  Payload(<<HdrSubject(<<73>>)>>, Multi(<<TextPart, Leaf(NamePng, "image/png")>>))
\* not multipart: the payload itself is the PDF attachment
BarePdfPayload ==
  Payload(<<HdrSubject(<<82, 49>>)>>, Leaf(NamePdf, "application/pdf"))

\* The payloads the listings of several messages draw from.
CorePayloads == { PdfPayload, PngPayload, BarePdfPayload }

\* The payloads a single listed message draws from.
Payloads ==
  CorePayloads \cup
  { \* upper-case extension, wrong content type
    Payload(<<HdrSubjectUpper(<<82, 49>>)>>,
            Multi(<<Leaf(NamePdfUpper, "application/octet-stream")>>)),
    \* a PDF by content type under another extension
    Payload(<<HdrFrom(<<120>>)>>,
            Multi(<<Leaf(NameDat, "application/pdf")>>)),
    \* PDF three levels deep, after an image
    Payload(<<HdrSubject(<<73>>)>>,
            Multi(<<Leaf(NamePng, "image/png"),
                    Multi(<<Multi(<<Leaf(NamePdf, "application/pdf")>>)>>)>>)),
    \* not multipart: plain text
    Payload(<<>>, TextPart),
    \* '.pdf' inside the name but not at its end; 'pdf' without the dot
    Payload(<<HdrSubject(<<73>>)>>,
            Multi(<<Leaf(NamePdfx, "application/pdf"),
                    Leaf(NameBarePdf, "application/pdf")>>)),
    \* multipart with an empty part list
    Payload(<<>>, Multi(<<>>)) }

\* Raw RFC 2822 byte streams: every sequence of at most MaxRawLen bytes over
\* LF, 'A', the two bytes of U+00E9 and 0xFF.
RawBytes == {10, 65, 195, 169, 255}
RawMessages == UNION { [1..n -> RawBytes] : n \in 0..MaxRawLen }

\* A message of the mailbox: what users.messages.get returns for it in
\* format 'full' (id, internalDate, payload) and the byte stream behind its
\* format 'raw'.
Message(id, payload, rawBytes) ==
  [id |-> id, internalDate |-> id * 86400000 + 5, payload |-> payload,
   rawBytes |-> rawBytes]

\* Mailboxes (the messages the search matches, in listing order): the empty
\* listing; every single message over Payloads, with the raw stream 'A\n';
\* every single message with a PDF attachment and an arbitrary raw stream;
\* every listing of 2..MaxMsgs messages over CorePayloads.
Mailboxes ==
  { <<>> }
  \cup { <<Message(1, p, <<65, 10>>)>> : p \in Payloads }
  \cup { <<Message(1, PdfPayload, r)>> : r \in RawMessages }
  \cup UNION { { [k \in 1..n |-> Message(k, ps[k], <<65, 10>>)] :
                   ps \in [1..n -> CorePayloads] } : n \in 2..MaxMsgs }

(***************************************************************************)
(* Pure functions of forward-invoices.mjs.                                 *)
(***************************************************************************)
\* formatDate: the UTC calendar day of an epoch-milliseconds timestamp, as
\* the number of the day.
formatDate(timestamp) == timestamp \div 86400000

\* getHeader of extractEmailInfo: the value of the first header whose name
\* equals `name` ignoring case, '' when there is none or it is empty.
RECURSIVE getHeader(_, _)
getHeader(headers, name) ==
  IF headers = <<>> THEN <<>>
  ELSE IF ToLowerCase(headers[1].name) = ToLowerCase(name) THEN headers[1].value
  ELSE getHeader(Tail(headers), name)

extractEmailInfo(message) ==
  [id |-> message.id,
   subject |-> getHeader(message.payload.headers, SubjectName),
   from |-> getHeader(message.payload.headers, FromName),
   date |-> formatDate(message.internalDate)]

\* String.prototype.includes.
Contains(s, sub) ==
  \E k \in 1..(Len(s) - Len(sub) + 1) : SubSeq(s, k, k + Len(sub) - 1) = sub

\* Variant of checkParts: the file name contains '.pdf' anywhere.
RECURSIVE checkPartsContains(_)
checkPartsContains(partsList) ==
  IF partsList = <<>> THEN FALSE
  ELSE
    LET part == partsList[1] IN
    IF part.filename # <<>> /\ Contains(ToLowerCase(part.filename), PdfSuffix)
    THEN TRUE
    ELSE IF part.hasParts /\ checkPartsContains(part.parts) THEN TRUE
    ELSE checkPartsContains(Tail(partsList))

\* checkParts of hasPdfAttachment: depth-first over a part list.
RECURSIVE checkParts(_)
checkParts(partsList) ==
  IF partsList = <<>> THEN FALSE
  ELSE
    LET part == partsList[1] IN
    IF part.filename # <<>> /\ EndsWith(ToLowerCase(part.filename), PdfSuffix)
    THEN TRUE
    ELSE IF part.hasParts /\ checkParts(part.parts) THEN TRUE
    ELSE checkParts(Tail(partsList))

hasPdfAttachment(message) ==
  checkParts(IF message.payload.hasParts THEN message.payload.parts ELSE <<>>)

\* The entry main() pushes to forwardedLog.
LogEntry(emailInfo) ==
  [date |-> emailInfo.date, from |-> emailInfo.from,
   subject |-> emailInfo.subject, id |-> emailInfo.id]

\* The raw field of users.messages.get in format 'raw': the base64url
\* encoding of the message's byte stream.
ApiRaw(message) ==
  ReplaceAll(ReplaceAll(Base64Encode(message.rawBytes), 43, 45), 47, 95)

\* Variant of EncodeForward: the envelope has no empty line before the
\* original message.
EncodeForwardNoBlankLine(raw, subject) ==
  LET rawMessage == Utf8Decode(Base64Decode(raw))
      forwardMessage ==
        JoinLines(<< ToPrefix \o FORWARD_TO, SubjectPrefix \o subject,
                     ContentTypeLine, rawMessage >>)
  IN StripTrailingPad(
       ReplaceAll(ReplaceAll(Base64Encode(Utf8Encode(forwardMessage)), 43, 45),
                  47, 95))

\* forwardEmail, lines 184-201: the string submitted as requestBody.raw for
\* a raw response and the subject of emailInfo.
EncodeForward(raw, subject) ==
  LET rawMessage == Utf8Decode(Base64Decode(raw))
      forwardMessage ==
        JoinLines(<< ToPrefix \o FORWARD_TO, SubjectPrefix \o subject,
                     ContentTypeLine, <<>>, rawMessage >>)
  IN StripTrailingPad(
       ReplaceAll(ReplaceAll(Base64Encode(Utf8Encode(forwardMessage)), 43, 45),
                  47, 95))

\* forwardEmail as a whole, for the outcomes of its two API calls:
\* rawGetOk - users.messages.get(format raw) returns; sendOk - send returns.
\* The result names the calls issued, the message sent and the return value.
forwardEmail(message, emailInfo, rawGetOk, sendOk) ==
  LET raw == ApiRaw(message)
      haveRaw == rawGetOk /\ raw # <<>>
  IN [rawGet |-> TRUE,
      send |-> haveRaw,
      encoded |-> IF haveRaw THEN EncodeForward(raw, emailInfo.subject) ELSE <<>>,
      success |-> haveRaw /\ sendOk]

(***************************************************************************)
(* sync-state.ts: the values SyncStateManager works on.  A JavaScript      *)
(* value is a record with its type; the properties of an account record    *)
(* it reads are numbers, undefined (the property is absent), NaN or null.  *)
(***************************************************************************)
Num(n) == [t |-> "number", v |-> n]
Undefined == [t |-> "undefined", v |-> 0]
NaN == [t |-> "NaN", v |-> 0]
Null == [t |-> "null", v |-> 0]

\* x += n for a number n: undefined + n and NaN + n are NaN, null counts
\* as 0.
Plus(x, n) ==
  IF x.t = "number" THEN Num(x.v + n)
  ELSE IF x.t = "null" THEN Num(n)
  ELSE NaN

\* AccountSyncState: the properties of an account record.
Fields ==
  { "lastSyncDate", "lastHistoryId", "totalFetched", "attachmentsSaved",
    "emailsSent", "draftsCreated" }

\* The addresses of the configured accounts.
Emails == { "personal@example.com", "business@example.com" }

\* An object without properties, and obj[key] = value on a copy of obj.
EmptyMap == [e \in {} |-> Undefined]
MapPut(obj, key, value) ==
  [k \in (DOMAIN obj) \cup {key} |-> IF k = key THEN value ELSE obj[k]]

\* DEFAULT_STATE and the in-memory states load can return: `kind` tells
\* whose `accounts` object the state refers to - "default" is the accounts
\* object of the module's DEFAULT_STATE (the spread copies the reference),
\* "own" an object JSON.parse made, "noaccounts" a parsed value without an
\* accounts property, "null" the parsed value null.
DEFAULT_STATE == [kind |-> "default", accounts |-> EmptyMap]
OwnState(accounts) == [kind |-> "own", accounts |-> accounts]

\* The state file: missing, unreadable, not JSON, or a JSON document - null,
\* a value without accounts ({}; [], 5, ...) or an object with accounts.
File(kind, accounts) == [kind |-> kind, accounts |-> accounts]
MissingFile == File("missing", EmptyMap)
StateFile(accounts) == File("state", accounts)

\* The record updateAccountState starts from at time t.
NewAccount(t) ==
  [lastSyncDate |-> Num(t), lastHistoryId |-> Undefined, totalFetched |-> Num(0),
   attachmentsSaved |-> Num(0), emailsSent |-> Num(0), draftsCreated |-> Num(0)]

\* A record written before emailsSent and draftsCreated existed.
OldAccount ==
  [lastSyncDate |-> Num(0), lastHistoryId |-> Undefined, totalFetched |-> Num(1),
   attachmentsSaved |-> Num(1), emailsSent |-> Undefined,
   draftsCreated |-> Undefined]

\* The state files a manager can find.
StateFiles ==
  { MissingFile, File("unreadable", EmptyMap), File("invalid", EmptyMap),
    File("null", EmptyMap), File("noaccounts", EmptyMap), StateFile(EmptyMap),
    StateFile(MapPut(EmptyMap, "personal@example.com", NewAccount(0))),
    StateFile(MapPut(EmptyMap, "personal@example.com", OldAccount)) }

\* load: the state the constructor stores for a state file.
load(file) ==
  IF file.kind = "missing" THEN DEFAULT_STATE
  ELSE IF file.kind \in {"unreadable", "invalid"} THEN DEFAULT_STATE
  ELSE IF file.kind = "state" THEN OwnState(file.accounts)
  ELSE [kind |-> file.kind, accounts |-> EmptyMap]

\* JSON.stringify(this.state, null, 2) for a state with an accounts map:
\* NaN is written as null, an undefined property is left out.
Stringify(accounts) ==
  StateFile([e \in DOMAIN accounts |->
               [f \in Fields |-> IF accounts[e][f].t = "NaN" THEN Null
                                 ELSE accounts[e][f]]])

\* Variant of writeFileSync: the accounts of the old file that the data
\* does not have are kept.
writeFileMerged(old, data) ==
  IF old.kind = "state"
  THEN StateFile([e \in (DOMAIN old.accounts) \cup (DOMAIN data.accounts) |->
                    IF e \in DOMAIN data.accounts THEN data.accounts[e]
                    ELSE old.accounts[e]])
  ELSE data

\* fs.writeFileSync(path, data): the file's content is replaced.
writeFileSync(old, data) == data

\* { ...existing, ...updates, lastSyncDate: now }
Spread(existing, updates, t) ==
  [f \in Fields |-> IF f = "lastSyncDate" THEN Num(t)
                    ELSE IF f \in DOMAIN updates THEN updates[f]
                    ELSE existing[f]]

\* The methods that change the state, on the accounts object the state
\* refers to, at time t: the accounts afterwards and whether save() is
\* called.
updateAccountState(accounts, email, updates, t) ==
  LET existing == IF email \in DOMAIN accounts THEN accounts[email]
                  ELSE NewAccount(t)
  IN [accounts |-> MapPut(accounts, email, Spread(existing, updates, t)),
      saves |-> TRUE]

incrementStats(accounts, email, fetched, attachments, t) ==
  IF email \in DOMAIN accounts
  THEN [accounts |->
          MapPut(accounts, email,
                 [accounts[email] EXCEPT
                    !.totalFetched = Plus(@, fetched),
                    !.attachmentsSaved = Plus(@, attachments),
                    !.lastSyncDate = Num(t)]),
        saves |-> TRUE]
  ELSE [accounts |-> accounts, saves |-> FALSE]

\* Variant of incrementSentCount: the record is changed in memory only.
incrementSentCountUnsaved(accounts, email, t) ==
  IF email \in DOMAIN accounts
  THEN [accounts |->
          MapPut(accounts, email,
                 [accounts[email] EXCEPT !.emailsSent = Plus(@, 1),
                                         !.lastSyncDate = Num(t)]),
        saves |-> FALSE]
  ELSE [accounts |-> accounts, saves |-> FALSE]

incrementSentCount(accounts, email, t) ==
  IF email \in DOMAIN accounts
  THEN [accounts |->
          MapPut(accounts, email,
                 [accounts[email] EXCEPT !.emailsSent = Plus(@, 1),
                                         !.lastSyncDate = Num(t)]),
        saves |-> TRUE]
  ELSE [accounts |-> accounts, saves |-> FALSE]

incrementDraftCount(accounts, email, t) ==
  IF email \in DOMAIN accounts
  THEN [accounts |->
          MapPut(accounts, email,
                 [accounts[email] EXCEPT !.draftsCreated = Plus(@, 1),
                                         !.lastSyncDate = Num(t)]),
        saves |-> TRUE]
  ELSE [accounts |-> accounts, saves |-> FALSE]

(***************************************************************************)
(* forward-invoices.mjs: the search query.  Strings are sequences of code  *)
(* points; sinceDate is a JavaScript value, a string or undefined.         *)
(***************************************************************************)
MaxSinceLen == 4

Str(s) == [t |-> "string", v |-> s]

\* "--since" and the default '2026-01-01'.
SinceFlag == "--since"
DefaultSince == <<50, 48, 50, 54, 45, 48, 49, 45, 48, 49>>

\* The nine keywords 'rechnung', 'invoice', 'billing', 'abrechnung',
\* 'gutschrift', 'faktura', 'zahlungsaufforderung', 'payment', 'bestellung'.
INVOICE_KEYWORDS ==
  << <<114, 101, 99, 104, 110, 117, 110, 103>>,
     <<105, 110, 118, 111, 105, 99, 101>>,
     <<98, 105, 108, 108, 105, 110, 103>>,
     <<97, 98, 114, 101, 99, 104, 110, 117, 110, 103>>,
     <<103, 117, 116, 115, 99, 104, 114, 105, 102, 116>>,
     <<102, 97, 107, 116, 117, 114, 97>>,
     <<122, 97, 104, 108, 117, 110, 103, 115, 97, 117, 102, 102, 111, 114, 100, 101, 114, 117, 110, 103>>,
     <<112, 97, 121, 109, 101, 110, 116>>,
     <<98, 101, 115, 116, 101, 108, 108, 117, 110, 103>> >>

\* Array.prototype.join(sep).
RECURSIVE Join(_, _)
Join(parts, sep) ==
  IF Len(parts) = 0 THEN <<>>
  ELSE IF Len(parts) = 1 THEN parts[1]
  ELSE parts[1] \o sep \o Join(Tail(parts), sep)

\* String.prototype.replace with a pattern that is not global: the first
\* occurrence only.
RECURSIVE ReplaceFirst(_, _, _)
ReplaceFirst(s, c, d) ==
  IF s = <<>> THEN <<>>
  ELSE IF s[1] = c THEN <<d>> \o Tail(s)
  ELSE <<s[1]>> \o ReplaceFirst(Tail(s), c, d)

\* The texts 'after:', ' has:attachment (', ')' and ' OR ' of the template.
QueryText ==
  [after |-> <<97, 102, 116, 101, 114, 58>>,
   hasAttachment |-> <<32, 104, 97, 115, 58, 97, 116, 116, 97, 99, 104, 109, 101, 110, 116, 32, 40>>,
   close |-> <<41>>,
   or |-> <<32, 79, 82, 32>>]

\* Variant of buildSearchQuery: only the first '-' becomes '/'.
buildSearchQueryFirstDash(since) ==
  LET dateStr == ReplaceFirst(since, 45, 47)
      keywordQuery == Join(INVOICE_KEYWORDS, QueryText.or)
  IN QueryText.after \o dateStr \o QueryText.hasAttachment \o keywordQuery
       \o QueryText.close

\* buildSearchQuery, for a string.
buildSearchQuery(since) ==
  LET dateStr == ReplaceAll(since, 45, 47)
      keywordQuery == Join(INVOICE_KEYWORDS, QueryText.or)
  IN QueryText.after \o dateStr \o QueryText.hasAttachment \o keywordQuery
       \o QueryText.close

\* The strings of '2', '-' and '/' a user may pass after --since.
RECURSIVE StringsUpTo(_, _)
StringsUpTo(chars, n) ==
  IF n = 0 THEN { <<>> }
  ELSE LET shorter == StringsUpTo(chars, n - 1)
       IN shorter \cup { Append(t, c) : t \in shorter, c \in chars }
SinceValues == StringsUpTo({50, 45, 47}, MaxSinceLen) \ { <<>> }

\* process.argv.slice(2), as far as sinceDate reads it: no --since, --since
\* with a value, or --since as the last argument.
SinceArgs ==
  { <<>>, <<SinceFlag>> } \cup { <<SinceFlag, v>> : v \in SinceValues }

\* const sinceDate, lines 37-39.
sinceDate(argv) ==
  IF Includes(argv, SinceFlag)
  THEN IF Len(argv) >= 2 THEN Str(argv[2]) ELSE Undefined
  ELSE Str(DefaultSince)

(***************************************************************************)
(* index.ts: saving an attachment into the folder of its message.  A       *)
(* folder is a function from the names of its files to their contents;     *)
(* the names are single path segments other than '', '.' and '..'.         *)
(***************************************************************************)
MaxSaves == 3

\* The characters of /[<>:"/\\|?*]/ and of \s.
UnsafeChars == {60, 62, 58, 34, 47, 92, 124, 63, 42}
Whitespace == {9, 10, 11, 12, 13, 32, 160}

\* String.prototype.replace(/\s+/g, "_"): each run becomes one '_'.
RECURSIVE CollapseWhitespace(_)
CollapseWhitespace(s) ==
  IF s = <<>> THEN <<>>
  ELSE IF s[1] \in Whitespace
       THEN IF Len(s) >= 2 /\ s[2] \in Whitespace
            THEN CollapseWhitespace(Tail(s))
            ELSE <<95>> \o CollapseWhitespace(Tail(s))
       ELSE <<s[1]>> \o CollapseWhitespace(Tail(s))

\* saveAttachmentToFolder: const safeFilename.
safeFilename(filename) ==
  CollapseWhitespace([k \in 1..Len(filename) |->
                        IF filename[k] \in UnsafeChars THEN 95 ELSE filename[k]])

LastIndexOf(s, c) ==
  IF \E k \in 1..Len(s) : s[k] = c
  THEN CHOOSE k \in 1..Len(s) : s[k] = c /\ \A j \in (k + 1)..Len(s) : s[j] # c
  ELSE 0

\* path.extname of a single segment: from the last '.', unless that is the
\* first character.
extname(name) ==
  LET d == LastIndexOf(name, 46)
  IN IF d <= 1 THEN <<>> ELSE SubSeq(name, d, Len(name))

\* path.basename(name, ext).
basename(name, ext) ==
  IF ext # <<>> /\ name # ext /\ EndsWith(name, ext)
  THEN SubSeq(name, 1, Len(name) - Len(ext))
  ELSE name

\* `${counter}`.
RECURSIVE ToDecimal(_)
ToDecimal(n) ==
  IF n < 10 THEN <<48 + n>> ELSE ToDecimal(n \div 10) \o <<48 + (n % 10)>>

\* getUniquePath: the do-while loop, from counter on.
RECURSIVE NextFree(_, _, _, _)
NextFree(exists, base, ext, counter) ==
  LET newPath == base \o <<95>> \o ToDecimal(counter) \o ext
  IN IF newPath \in exists
     THEN NextFree(exists, base, ext, counter + 1)
     ELSE newPath

\* Variant of getUniquePath: the name with _1 is taken without looking.
getUniquePathOnce(exists, filepath) ==
  IF filepath \notin exists THEN filepath
  ELSE LET ext == extname(filepath)
       IN basename(filepath, ext) \o <<95>> \o ToDecimal(1) \o ext

\* getUniquePath, in a folder whose files are exists.
getUniquePath(exists, filepath) ==
  IF filepath \notin exists THEN filepath
  ELSE LET ext == extname(filepath)
       IN NextFree(exists, basename(filepath, ext), ext, 1)

\* saveAttachmentToFolder: the path written and the folder afterwards.
saveAttachmentToFolder(files, data, filename) ==
  LET uniquePath == getUniquePath(DOMAIN files, safeFilename(filename))
  IN [path |-> uniquePath,
      files |-> [p \in DOMAIN files \cup {uniquePath} |->
                   IF p = uniquePath THEN data ELSE files[p]]]

\* The attachment names 'a.a', 'a a', 'a:a', 'a  a', 'a_a', 'a_1.a', 'a_a_1'
\* and '.a'.
AttachmentNames ==
  { <<97, 46, 97>>,
    <<97, 32, 97>>,
    <<97, 58, 97>>,
    <<97, 32, 32, 97>>,
    <<97, 95, 97>>,
    <<97, 95, 49, 46, 97>>,
    <<97, 95, 97, 95, 49>>,
    <<46, 97>> }

\* The contents of an attachment, and of a file found in the folder.
Buffers == { <<1>>, <<2>> }
NoFiles == [p \in {} |-> <<>>]

\* The folder of a message fetched before: it may hold 'a.a' and 'a_1.a'.
InitialFolders ==
  { [p \in names |-> <<0>>] : names \in SUBSET { <<97, 46, 97>>, <<97, 95, 49, 46, 97>> } }

(***************************************************************************)
(* gmail.ts: fetchMessages.  The listing the query matches is the messages *)
(* 1..n in listing order; a page token is the number of messages the       *)
(* pages before it carried.                                                *)
(***************************************************************************)
MaxListed == 4
MaxPageLen == 2

\* The 100 of Math.min(options.maxResults || 100, 100).
PageSizeLimit == 100

\* A JavaScript value is truthy: a number other than 0 and NaN.
Truthy(x) == x.t = "number" /\ x.v # 0

Min(a, b) == IF a <= b THEN a ELSE b

\* users.messages.list: the maxResults parameter of the request.
pageSize(maxResults) ==
  Min(IF Truthy(maxResults) THEN maxResults.v ELSE PageSizeLimit, PageSizeLimit)

\* options.maxResults && messages.length >= options.maxResults.
limitReached(maxResults, length) == Truthy(maxResults) /\ length >= maxResults.v

\* Variant of collect: the inner loop has no break.
RECURSIVE collectAll(_, _, _, _)
collectAll(page, failed, messages, maxResults) ==
  IF page = <<>> THEN [messages |-> messages, gets |-> 0]
  ELSE LET rest == collectAll(Tail(page), failed,
                              IF Head(page) \in failed THEN messages
                              ELSE Append(messages, Head(page)),
                              maxResults)
       IN [messages |-> rest.messages, gets |-> rest.gets + 1]

\* The for loop over response.data.messages: the messages collected after
\* it and the number of getMessage calls it made.  getMessage returns null
\* for the ids in failed.
RECURSIVE collect(_, _, _, _)
collect(page, failed, messages, maxResults) ==
  IF page = <<>> \/ limitReached(maxResults, Len(messages))
  THEN [messages |-> messages, gets |-> 0]
  ELSE LET rest == collect(Tail(page), failed,
                           IF Head(page) \in failed THEN messages
                           ELSE Append(messages, Head(page)),
                           maxResults)
       IN [messages |-> rest.messages, gets |-> rest.gets + 1]

\* options.maxResults: absent, 0 or a positive number.
MaxResultsOptions == {Undefined} \cup { Num(k) : k \in 0..MaxListed }

(***************************************************************************)
(* auth.ts: tokens, the token file and the client's credentials.           *)
(***************************************************************************)
MaxCallbacks == 2

\* The requests the callback server may receive.
Requests == 1..MaxCallbacks

\* A token: where its access_token came from, and its expiry_date.
Token(origin, n, expiry) ==
  [access_token |-> [origin |-> origin, n |-> n], expiry_date |-> expiry]
NoToken == Token("none", 0, Undefined)

\* The token file: missing, not JSON, or the JSON text of a token.
TokenFile(kind, token) == [kind |-> kind, token |-> token]

\* JSON.stringify(token, null, 2): a NaN becomes null.
TokenJson(token) ==
  TokenFile("json",
            [token EXCEPT !.expiry_date = IF @ = NaN THEN Null ELSE @])

\* The token files getAuthenticatedClient may find: the stored expiry_date
\* is absent, 0, before, at or after the time of the call.
TokenFiles ==
  { TokenFile("missing", NoToken), TokenFile("invalid", NoToken) }
    \cup { TokenJson(Token("stored", 0, e)) :
             e \in {Undefined, Num(0), Num(1), Num(2), Num(3)} }

\* token.expiry_date && token.expiry_date < Date.now().
isExpired(token, t) == Truthy(token.expiry_date) /\ token.expiry_date.v < t

\* saveToken, when fs.writeFileSync returns.
saveToken(file, token) == TokenJson(token)

(***************************************************************************)
(* State of the forwarder's process and of what it leaves behind.          *)
(***************************************************************************)
VARIABLES
  mailbox,       \* the messages the search query matches, in listing order
  run,           \* number of the current invocation of the script
  args,          \* process.argv.slice(2) of the current invocation
  pc,            \* "idle", "search", "loop", "done" (main returned) or
                 \* "exited" (process.exit(1))
  messages,      \* main: searchResponse.data.messages || []
  processed,     \* main: let processed
  forwarded,     \* main: let forwarded
  skipped,       \* main: let skipped
  forwardedLog,  \* main: const forwardedLog
  rawGets,       \* ids of the users.messages.get calls in format 'raw'
  sendCalls,     \* ids of the users.messages.send calls issued
  sentOk,        \* ids of the send calls that returned
  lastSent,      \* the last requestBody.raw submitted, with its message id
  summary,       \* the summary block main printed, if it did
  logFile,       \* content of the forwarded-invoices-<now>.json written
  logWrites,     \* number of fs.writeFileSync calls that returned
  exitCode,      \* exit code of the process, -1 while it runs
  resp,          \* outcome of the API calls made for each candidate
  disp,          \* what main did with each candidate
  prev           \* the previous invocation: its arguments and results

\* State of the email-manager CLI (index.ts, sync-state.ts).
VARIABLES
  att,           \* fetchEmails: the attachment the filter is looking at
  verdict,       \* fetchEmails: what the filter and the save loop did with it
  disk,          \* the state file at SYNC_STATE_PATH
  now,           \* the clock new Date() reads
  dflt,          \* per process: the accounts object of DEFAULT_STATE
  mem,           \* per SyncStateManager: its process, this.state and the
                 \* time of its last save() that returned
  lastOp,        \* the last call on a manager and how it ended
  cli,           \* the last command of the CLI and how its process ended
  tally          \* per account: the operations that succeeded so far

\* State of the single functions checked on their own.
VARIABLES
  sinceArgs,     \* forward-invoices.mjs: process.argv.slice(2)
  query          \* forward-invoices.mjs: what buildSearchQuery(sinceDate) gave

VARIABLES
  folder,        \* index.ts: the files of emailFolder and their contents
  saves          \* index.ts: the saveAttachmentToFolder calls made so far

VARIABLES
  listing,       \* gmail.ts: the number of messages the query matches
  fetch          \* gmail.ts: one call of fetchMessages

\* State of auth.ts.
VARIABLES
  tokenFile,     \* the file at account.tokenPath
  client,        \* oauth2Client: its credentials
  auth,          \* one call of getAuthenticatedClient
  flow,          \* authenticateInteractively: server, timer and promise
  callbacks      \* per request to the callback server: how far its handler is

forwarderVars ==
  << mailbox, run, args, pc, messages, processed, forwarded, skipped,
     forwardedLog, rawGets, sendCalls, sentOk, lastSent, summary, logFile,
     logWrites, exitCode, resp, disp, prev >>
filterVars == << att, verdict >>
syncVars == << disk, now, dflt, mem, lastOp >>
cliVars == << cli, tally >>
emailManagerVars == << filterVars, syncVars, cliVars >>
queryVars == << sinceArgs, query >>
saveVars == << folder, saves >>
listVars == << listing, fetch >>
authVars == << tokenFile, client, auth, flow, callbacks >>
auxVars == << queryVars, saveVars, listVars, authVars >>
vars == << forwarderVars, emailManagerVars, auxVars >>

\* No attachment is being looked at.
NoAttachment == [filename |-> <<>>, mimeType |-> <<>>, size |-> 0]
NoVerdict == [step |-> "none", junk |-> FALSE, kept |-> FALSE]
FilterIdle == att = NoAttachment /\ verdict = NoVerdict

\* The processes that use the state file, and the managers they construct.
Procs == {1, 2}
Managers == {1, 2}
Unconstructed ==
  [constructed |-> FALSE, proc |-> 0, kind |-> "none", accounts |-> EmptyMap,
   savedAt |-> 0]
NoOp ==
  [m |-> 0, op |-> "none", threw |-> FALSE, changed |-> FALSE, saved |-> FALSE]

\* No process has a manager; every process has its untouched DEFAULT_STATE.
NoManagers ==
  /\ dflt = [p \in Procs |-> EmptyMap]
  /\ mem = [m \in Managers |-> Unconstructed]
  /\ lastOp = NoOp

\* No command has run.
NoCommand ==
  [cmd |-> "none", account |-> "", credentials |-> "present",
   failure |-> "none", topLevel |-> FALSE, exit |-> -1,
   run |-> [forceHistorical |-> FALSE, startArg |-> Undefined, endDate |-> 0,
            before |-> MissingFile,
            previous |-> [e \in Emails |->
                            [done |-> FALSE, completed |-> 0, endDate |-> 0]],
            results |-> <<>>]]
NoTally ==
  [ops |-> [e \in Emails |->
              [sent |-> 0, drafts |-> 0, fetched |-> 0, attachments |-> 0]],
   saveFailed |-> FALSE,
   lastFetch |-> [e \in Emails |->
                    [done |-> FALSE, completed |-> 0, endDate |-> 0]]]
CliIdle == cli = NoCommand /\ tally = NoTally

EmailManagerIdle ==
  /\ FilterIdle
  /\ disk = MissingFile
  /\ now = 1
  /\ NoManagers
  /\ CliIdle

\* No query has been asked for.
NoQuery == [step |-> "none", threw |-> FALSE, text |-> <<>>]
QueryIdle == sinceArgs = <<>> /\ query = NoQuery

\* No folder has been created.
SaveIdle == folder = NoFiles /\ saves = <<>>

\* fetchMessages has not been called.
NoFetch ==
  [pc |-> "none", maxResults |-> Undefined, pageToken |-> Undefined,
   messages |-> <<>>, pages |-> <<>>, gets |-> 0, failed |-> {}]
ListIdle == listing = 0 /\ fetch = NoFetch

\* getAuthenticatedClient has not been called.
NoAuth == [pc |-> "none", path |-> "none", writes |-> 0, crashed |-> FALSE]
NoFlow ==
  [server |-> "none", timer |-> "none", settled |-> "none", lateSave |-> FALSE]
AuthIdle ==
  /\ tokenFile = TokenFile("missing", NoToken)
  /\ client = NoToken
  /\ auth = NoAuth
  /\ flow = NoFlow
  /\ callbacks = [r \in Requests |-> "none"]

AuxIdle ==
  /\ QueryIdle
  /\ SaveIdle
  /\ ListIdle
  /\ AuthIdle

NoSummary ==
  [printed |-> FALSE, total |-> 0, processed |-> 0, forward |-> 0, skip |-> 0]
NothingSent == [valid |-> FALSE, id |-> 0, encoded |-> <<>>]
NoRun ==
  [valid |-> FALSE, args |-> <<>>, resp |-> <<>>, disp |-> <<>>, log |-> <<>>,
   sends |-> <<>>]

\* The state of a process that has just been started.
FreshProcess ==
  /\ pc = "idle"
  /\ args = <<>>
  /\ messages = <<>>
  /\ processed = 0
  /\ forwarded = 0
  /\ skipped = 0
  /\ forwardedLog = <<>>
  /\ rawGets = <<>>
  /\ sendCalls = <<>>
  /\ sentOk = <<>>
  /\ lastSent = NothingSent
  /\ summary = NoSummary
  /\ logFile = <<>>
  /\ logWrites = 0
  /\ exitCode = -1
  /\ resp = <<>>
  /\ disp = <<>>

\* The state of the forwarder before its first invocation, with nothing to
\* search.
ForwarderIdle ==
  /\ mailbox = <<>>
  /\ run = 1
  /\ prev = NoRun
  /\ FreshProcess

Init ==
  /\ mailbox \in Mailboxes
  /\ run = 1
  /\ prev = NoRun
  /\ FreshProcess
  /\ EmailManagerIdle
  /\ AuxIdle

loopVars ==
  << processed, forwarded, skipped, forwardedLog, rawGets, sendCalls, sentOk,
     lastSent, resp, disp >>
outVars == << summary, logFile, logWrites >>

\* main().catch: an error that leaves main() is printed and the process
\* exits with code 1.
TopLevelCatch ==
  /\ pc' = "exited"
  /\ exitCode' = 1

\* Start of the script: the arguments are parsed; createOAuth2Client and
\* loadToken exit with code 1 when their file does not exist.
StartRun ==
  /\ pc = "idle"
  /\ \E argv \in ArgVectors, credentialsExist \in BOOLEAN, tokenExists \in BOOLEAN :
       /\ args' = argv
       /\ IF credentialsExist /\ tokenExists
          THEN pc' = "search" /\ exitCode' = exitCode
          ELSE pc' = "exited" /\ exitCode' = 1
  /\ UNCHANGED << mailbox, run, messages, loopVars, outVars, prev >>
  /\ UNCHANGED << emailManagerVars, auxVars >>

\* users.messages.list throws.
SearchFails ==
  /\ pc = "search"
  /\ TopLevelCatch
  /\ UNCHANGED << mailbox, run, args, messages, loopVars, outVars, prev >>
  /\ UNCHANGED << emailManagerVars, auxVars >>

\* users.messages.list returns no message: main returns at once.
SearchEmpty ==
  /\ pc = "search"
  /\ Len(mailbox) = 0
  /\ messages' = <<>>
  /\ pc' = "done"
  /\ exitCode' = 0
  /\ UNCHANGED << mailbox, run, args, loopVars, outVars, prev >>
  /\ UNCHANGED << emailManagerVars, auxVars >>

SearchFound ==
  /\ pc = "search"
  /\ Len(mailbox) > 0
  /\ messages' = mailbox
  /\ pc' = "loop"
  /\ UNCHANGED << mailbox, run, args, exitCode, loopVars, outVars, prev >>
  /\ UNCHANGED << emailManagerVars, auxVars >>

\* The candidate the next iteration of the loop processes.
Current == messages[processed + 1]
InLoop == pc = "loop" /\ processed < Len(messages)

\* One iteration in which users.messages.get (format full) throws: the
\* error leaves the loop and main.
IterFullGetFails ==
  /\ InLoop
  /\ processed' = processed + 1
  /\ resp' = Append(resp, "full-get-failed")
  /\ disp' = Append(disp, "error")
  /\ TopLevelCatch
  /\ UNCHANGED << mailbox, run, args, messages, forwarded, skipped, forwardedLog,
                  rawGets, sendCalls, sentOk, lastSent, outVars, prev >>
  /\ UNCHANGED << emailManagerVars, auxVars >>

\* One iteration for a candidate that fails the PDF check.
IterSkipNoPdf ==
  /\ InLoop
  /\ ~hasPdfAttachment(Current)
  /\ processed' = processed + 1
  /\ skipped' = skipped + 1
  /\ resp' = Append(resp, "full")
  /\ disp' = Append(disp, "skip-no-pdf")
  /\ UNCHANGED << mailbox, run, args, pc, messages, forwarded, forwardedLog,
                  rawGets, sendCalls, sentOk, lastSent, outVars, exitCode, prev >>
  /\ UNCHANGED << emailManagerVars, auxVars >>

\* One iteration for a candidate that passes the PDF check, in a dry run.
IterDryRun ==
  /\ InLoop
  /\ hasPdfAttachment(Current)
  /\ isDryRun(args)
  /\ processed' = processed + 1
  /\ forwardedLog' = Append(forwardedLog, LogEntry(extractEmailInfo(Current)))
  /\ resp' = Append(resp, "full")
  /\ disp' = Append(disp, "would-forward")
  /\ UNCHANGED << mailbox, run, args, pc, messages, forwarded, skipped, rawGets,
                  sendCalls, sentOk, lastSent, outVars, exitCode, prev >>
  /\ UNCHANGED << emailManagerVars, auxVars >>

\* Variant of IterForward: forwardEmail has no try/catch, so a failing API
\* call leaves the loop and main.
IterForwardNoCatch ==
  /\ InLoop
  /\ hasPdfAttachment(Current)
  /\ ~isDryRun(args)
  /\ \E api \in { <<FALSE, FALSE>>, <<TRUE, FALSE>>, <<TRUE, TRUE>> } :
       LET emailInfo == extractEmailInfo(Current)
           r == forwardEmail(Current, emailInfo, api[1], api[2])
       IN
       /\ processed' = processed + 1
       /\ rawGets' = IF r.rawGet THEN Append(rawGets, Current.id) ELSE rawGets
       /\ sendCalls' = IF r.send THEN Append(sendCalls, Current.id) ELSE sendCalls
       /\ lastSent' = IF r.send
                      THEN [valid |-> TRUE, id |-> Current.id, encoded |-> r.encoded]
                      ELSE lastSent
       /\ sentOk' = IF r.success THEN Append(sentOk, Current.id) ELSE sentOk
       /\ forwarded' = IF r.success THEN forwarded + 1 ELSE forwarded
       /\ forwardedLog' = IF r.success
                          THEN Append(forwardedLog, LogEntry(emailInfo))
                          ELSE forwardedLog
       /\ skipped' = skipped
       /\ resp' = Append(resp, IF ~api[1] THEN "raw-get-failed"
                               ELSE IF ~r.send THEN "no-raw"
                               ELSE IF api[2] THEN "sent" ELSE "send-failed")
       /\ disp' = Append(disp, IF r.success THEN "forwarded" ELSE "forward-failed")
       /\ IF r.success THEN UNCHANGED << pc, exitCode >> ELSE TopLevelCatch
  /\ UNCHANGED << mailbox, run, args, messages, outVars, prev >>
  /\ UNCHANGED << emailManagerVars, auxVars >>

\* Variant of IterForward: a candidate an earlier invocation has sent is
\* recognised and passed over without any API call.
IterForwardOnce ==
  /\ InLoop
  /\ hasPdfAttachment(Current)
  /\ ~isDryRun(args)
  /\ \E api \in { <<FALSE, FALSE>>, <<TRUE, FALSE>>, <<TRUE, TRUE>> } :
       LET emailInfo == extractEmailInfo(Current)
           known == prev.valid /\ Includes(prev.sends, Current.id)
           r == IF known
                THEN [rawGet |-> FALSE, send |-> FALSE, encoded |-> <<>>,
                      success |-> FALSE]
                ELSE forwardEmail(Current, emailInfo, api[1], api[2])
       IN
       /\ processed' = processed + 1
       /\ rawGets' = IF r.rawGet THEN Append(rawGets, Current.id) ELSE rawGets
       /\ sendCalls' = IF r.send THEN Append(sendCalls, Current.id) ELSE sendCalls
       /\ lastSent' = IF r.send
                      THEN [valid |-> TRUE, id |-> Current.id, encoded |-> r.encoded]
                      ELSE lastSent
       /\ sentOk' = IF r.success THEN Append(sentOk, Current.id) ELSE sentOk
       /\ forwarded' = IF r.success THEN forwarded + 1 ELSE forwarded
       /\ forwardedLog' = IF r.success
                          THEN Append(forwardedLog, LogEntry(emailInfo))
                          ELSE forwardedLog
       /\ skipped' = IF r.success THEN skipped ELSE skipped + 1
       /\ resp' = Append(resp, IF known THEN "full"
                               ELSE IF ~api[1] THEN "raw-get-failed"
                               ELSE IF ~r.send THEN "no-raw"
                               ELSE IF api[2] THEN "sent" ELSE "send-failed")
       /\ disp' = Append(disp, IF r.success THEN "forwarded" ELSE "forward-failed")
  /\ UNCHANGED << mailbox, run, args, pc, messages, outVars, exitCode, prev >>
  /\ UNCHANGED << emailManagerVars, auxVars >>

\* Variant of IterForward: a send that fails is issued a second time.
IterForwardRetry ==
  /\ InLoop
  /\ hasPdfAttachment(Current)
  /\ ~isDryRun(args)
  /\ \E api \in { <<FALSE, FALSE>>, <<TRUE, FALSE>>, <<TRUE, TRUE>> } :
       LET emailInfo == extractEmailInfo(Current)
           r == forwardEmail(Current, emailInfo, api[1], api[2])
           again == r.send /\ ~api[2]
       IN
       /\ processed' = processed + 1
       /\ rawGets' = IF r.rawGet THEN Append(rawGets, Current.id) ELSE rawGets
       /\ sendCalls' = IF again THEN sendCalls \o << Current.id, Current.id >>
                       ELSE IF r.send THEN Append(sendCalls, Current.id)
                       ELSE sendCalls
       /\ lastSent' = IF r.send
                      THEN [valid |-> TRUE, id |-> Current.id, encoded |-> r.encoded]
                      ELSE lastSent
       /\ sentOk' = IF r.success THEN Append(sentOk, Current.id) ELSE sentOk
       /\ forwarded' = IF r.success THEN forwarded + 1 ELSE forwarded
       /\ forwardedLog' = IF r.success
                          THEN Append(forwardedLog, LogEntry(emailInfo))
                          ELSE forwardedLog
       /\ skipped' = IF r.success THEN skipped ELSE skipped + 1
       /\ resp' = Append(resp, IF ~api[1] THEN "raw-get-failed"
                               ELSE IF ~r.send THEN "no-raw"
                               ELSE IF api[2] THEN "sent" ELSE "send-failed")
       /\ disp' = Append(disp, IF r.success THEN "forwarded" ELSE "forward-failed")
  /\ UNCHANGED << mailbox, run, args, pc, messages, outVars, exitCode, prev >>
  /\ UNCHANGED << emailManagerVars, auxVars >>

\* One iteration for a candidate that passes the PDF check, with --execute:
\* forwardEmail is called and its return value decides the counters.
IterForward ==
  /\ InLoop
  /\ hasPdfAttachment(Current)
  /\ ~isDryRun(args)
  /\ \E api \in { <<FALSE, FALSE>>, <<TRUE, FALSE>>, <<TRUE, TRUE>> } :
       LET emailInfo == extractEmailInfo(Current)
           r == forwardEmail(Current, emailInfo, api[1], api[2])
       IN
       /\ processed' = processed + 1
       /\ rawGets' = IF r.rawGet THEN Append(rawGets, Current.id) ELSE rawGets
       /\ sendCalls' = IF r.send THEN Append(sendCalls, Current.id) ELSE sendCalls
       /\ lastSent' = IF r.send
                      THEN [valid |-> TRUE, id |-> Current.id, encoded |-> r.encoded]
                      ELSE lastSent
       /\ sentOk' = IF r.success THEN Append(sentOk, Current.id) ELSE sentOk
       /\ forwarded' = IF r.success THEN forwarded + 1 ELSE forwarded
       /\ forwardedLog' = IF r.success
                          THEN Append(forwardedLog, LogEntry(emailInfo))
                          ELSE forwardedLog
       /\ skipped' = IF r.success THEN skipped ELSE skipped + 1
       /\ resp' = Append(resp, IF ~api[1] THEN "raw-get-failed"
                               ELSE IF ~r.send THEN "no-raw"
                               ELSE IF api[2] THEN "sent" ELSE "send-failed")
       /\ disp' = Append(disp, IF r.success THEN "forwarded" ELSE "forward-failed")
  /\ UNCHANGED << mailbox, run, args, pc, messages, outVars, exitCode, prev >>
  /\ UNCHANGED << emailManagerVars, auxVars >>

\* Variant of Summary: a dry run prints the forwarded counter as well.
SummaryOfCounters ==
  [printed |-> TRUE, total |-> Len(messages), processed |-> processed,
   forward |-> forwarded, skip |-> skipped]

\* The summary main prints after the loop.
Summary ==
  [printed |-> TRUE, total |-> Len(messages), processed |-> processed,
   forward |-> IF isDryRun(args) THEN Len(forwardedLog) ELSE forwarded,
   skip |-> skipped]

\* Variant of Finish: the log is saved without looking at its length.
FinishAlwaysSaves ==
  /\ pc = "loop"
  /\ processed = Len(messages)
  /\ summary' = [printed |-> TRUE, total |-> Len(messages), processed |-> processed,
                 forward |-> IF isDryRun(args) THEN Len(forwardedLog) ELSE forwarded,
                 skip |-> skipped]
  /\ logFile' = forwardedLog
  /\ logWrites' = logWrites + 1
  /\ pc' = "done"
  /\ exitCode' = 0
  /\ UNCHANGED << mailbox, run, args, messages, loopVars, prev >>
  /\ UNCHANGED << emailManagerVars, auxVars >>

\* After the loop: the summary is printed and the log is saved when it has
\* an entry; main returns.
Finish ==
  /\ pc = "loop"
  /\ processed = Len(messages)
  /\ summary' = Summary
  /\ IF Len(forwardedLog) > 0
     THEN logFile' = forwardedLog /\ logWrites' = logWrites + 1
     ELSE UNCHANGED << logFile, logWrites >>
  /\ pc' = "done"
  /\ exitCode' = 0
  /\ UNCHANGED << mailbox, run, args, messages, loopVars, prev >>
  /\ UNCHANGED << emailManagerVars, auxVars >>

\* After the loop, fs.writeFileSync throws: the summary has been printed,
\* no file is written, the error leaves main.
FinishWriteFails ==
  /\ pc = "loop"
  /\ processed = Len(messages)
  /\ Len(forwardedLog) > 0
  /\ summary' = Summary
  /\ TopLevelCatch
  /\ UNCHANGED << mailbox, run, args, messages, loopVars, logFile, logWrites, prev >>
  /\ UNCHANGED << emailManagerVars, auxVars >>

\* Variant of NextRun: the forwarding log of the finished invocation is
\* carried into the next one.
NextRunKeepsLog ==
  /\ pc \in {"done", "exited"}
  /\ run < MaxRuns
  /\ run' = run + 1
  /\ prev' = [valid |-> TRUE, args |-> args, resp |-> resp, disp |-> disp,
              log |-> forwardedLog, sends |-> sendCalls]
  /\ pc' = "idle"
  /\ args' = <<>>
  /\ messages' = <<>>
  /\ processed' = 0
  /\ forwarded' = 0
  /\ skipped' = 0
  /\ forwardedLog' = forwardedLog
  /\ rawGets' = <<>>
  /\ sendCalls' = <<>>
  /\ sentOk' = <<>>
  /\ lastSent' = NothingSent
  /\ summary' = NoSummary
  /\ logFile' = <<>>
  /\ logWrites' = 0
  /\ exitCode' = -1
  /\ resp' = <<>>
  /\ disp' = <<>>
  /\ UNCHANGED mailbox
  /\ UNCHANGED << emailManagerVars, auxVars >>

\* The script is started again on the same mailbox: nothing of the process
\* survives, the model remembers the finished invocation in prev.
NextRun ==
  /\ pc \in {"done", "exited"}
  /\ run < MaxRuns
  /\ run' = run + 1
  /\ prev' = [valid |-> TRUE, args |-> args, resp |-> resp, disp |-> disp,
              log |-> forwardedLog, sends |-> sendCalls]
  /\ pc' = "idle"
  /\ args' = <<>>
  /\ messages' = <<>>
  /\ processed' = 0
  /\ forwarded' = 0
  /\ skipped' = 0
  /\ forwardedLog' = <<>>
  /\ rawGets' = <<>>
  /\ sendCalls' = <<>>
  /\ sentOk' = <<>>
  /\ lastSent' = NothingSent
  /\ summary' = NoSummary
  /\ logFile' = <<>>
  /\ logWrites' = 0
  /\ exitCode' = -1
  /\ resp' = <<>>
  /\ disp' = <<>>
  /\ UNCHANGED mailbox
  /\ UNCHANGED << emailManagerVars, auxVars >>

Next ==
  \/ StartRun
  \/ SearchFails
  \/ SearchEmpty
  \/ SearchFound
  \/ IterFullGetFails
  \/ IterSkipNoPdf
  \/ IterDryRun
  \/ IterForward
  \/ Finish
  \/ FinishWriteFails
  \/ NextRun

Spec == Init /\ [][Next]_vars

(***************************************************************************)
(* index.ts: the attachment filter of the fetch pipeline.  Strings are     *)
(* sequences of code points, as above.                                     *)
(***************************************************************************)
\* s.startsWith(prefix), the anchor ^ of a pattern.
StartsWith(s, prefix) ==
  Len(s) >= Len(prefix) /\ SubSeq(s, 1, Len(prefix)) = prefix

\* \d
IsDigit(c) == c \in 48..57

\* The extensions the patterns name, with their dot:
\*   png = .png, jpg = .jpg, jpeg = .jpeg, gif = .gif
Ext ==
  [ png |-> <<46, 112, 110, 103>>,
    jpg |-> <<46, 106, 112, 103>>,
    jpeg |-> <<46, 106, 112, 101, 103>>,
    gif |-> <<46, 103, 105, 102>> ]

\* The words the patterns start with or look for, in lower case:
\*   icon = icon, iconUnderscore = icon_, atlGenerated = atl-generated-,
\*   prestashopLogo = prestashop-logo, cidForSap = cidforsap, logo = logo,
\*   spacer = spacer, pixel = pixel, tracking = tracking, signature =
\*   signature, image = image, embedded = embedded_
Word ==
  [ icon |-> <<105, 99, 111, 110>>,
    iconUnderscore |-> <<105, 99, 111, 110, 95>>,
    atlGenerated |-> <<97, 116, 108, 45, 103, 101, 110, 101, 114, 97, 116, 101, 100, 45>>,
    prestashopLogo |-> <<112, 114, 101, 115, 116, 97, 115, 104, 111, 112, 45, 108, 111, 103, 111>>,
    cidForSap |-> <<99, 105, 100, 102, 111, 114, 115, 97, 112>>,
    logo |-> <<108, 111, 103, 111>>,
    spacer |-> <<115, 112, 97, 99, 101, 114>>,
    pixel |-> <<112, 105, 120, 101, 108>>,
    tracking |-> <<116, 114, 97, 99, 107, 105, 110, 103>>,
    signature |-> <<115, 105, 103, 110, 97, 116, 117, 114, 101>>,
    image |-> <<105, 109, 97, 103, 101>>,
    embedded |-> <<101, 109, 98, 101, 100, 100, 101, 100, 95>> ]

\* /^word\.(e1|e2|...)$/i for a file name already in lower case.
WordDotExt(name, word, exts) == \E e \in exts : name = word \o e

\* /^icon(_\d+)?\.(png|jpg|gif)$/i for a file name already in lower case.
IconPattern(name) ==
  \E e \in {Ext.png, Ext.jpg, Ext.gif} :
    \/ name = Word.icon \o e
    \/ /\ StartsWith(name, Word.iconUnderscore)
       /\ EndsWith(name, e)
       /\ Len(name) > Len(Word.iconUnderscore) + Len(e)
       /\ \A k \in (Len(Word.iconUnderscore) + 1)..(Len(name) - Len(e)) : IsDigit(name[k])

\* /^image\d{3}\.(png|jpg|jpeg|gif)$/i for a file name already in lower case.
ImagePattern(name) ==
  \E e \in {Ext.png, Ext.jpg, Ext.jpeg, Ext.gif} :
    /\ Len(name) = Len(Word.image) + 3 + Len(e)
    /\ StartsWith(name, Word.image)
    /\ \A k \in 6..8 : IsDigit(name[k])
    /\ EndsWith(name, e)

\* Variant of JUNK_PATTERNS: the patterns read as the globs icon*.png/jpg/gif,
\* *atl-generated-*, *prestashop-logo*, *cidForSAP*, logo.*, spacer.*,
\* pixel.*, tracking.* and signature*.
JUNK_GLOBS(filename) ==
  LET name == ToLowerCase(filename)
  IN << StartsWith(name, Word.icon) /\ \E e \in {Ext.png, Ext.jpg, Ext.gif} : EndsWith(name, e),
        Contains(name, Word.atlGenerated),
        Contains(name, Word.prestashopLogo),
        Contains(name, Word.cidForSap),
        StartsWith(name, Word.logo \o <<46>>),
        StartsWith(name, Word.spacer \o <<46>>),
        StartsWith(name, Word.pixel \o <<46>>),
        StartsWith(name, Word.tracking \o <<46>>),
        StartsWith(name, Word.signature) >>

\* JUNK_PATTERNS: pattern.test(filename) for each of the nine patterns, in
\* the order of the array.  [_-]? matches the empty string, so the last
\* pattern asks for the prefix only.
JUNK_PATTERNS(filename) ==
  LET name == ToLowerCase(filename)
  IN << IconPattern(name),
        StartsWith(name, Word.atlGenerated),
        StartsWith(name, Word.prestashopLogo),
        Contains(name, Word.cidForSap),
        WordDotExt(name, Word.logo, {Ext.png, Ext.jpg, Ext.gif}),
        WordDotExt(name, Word.spacer, {Ext.gif, Ext.png}),
        WordDotExt(name, Word.pixel, {Ext.gif, Ext.png}),
        WordDotExt(name, Word.tracking, {Ext.gif, Ext.png}),
        StartsWith(name, Word.signature) >>

\* SIZE_DEPENDENT_PATTERNS: pattern.test(filename) for each of the two.
SIZE_DEPENDENT_PATTERNS(filename) ==
  LET name == ToLowerCase(filename)
  IN << ImagePattern(name), StartsWith(name, Word.embedded) >>

\* some pattern of the array matches
AnyMatch(tests) == \E k \in 1..Len(tests) : tests[k]

\* /\.(png|gif|jpg|jpeg)$/i.test(filename)
HasImageExtension(filename) ==
  \E e \in {Ext.png, Ext.gif, Ext.jpg, Ext.jpeg} : EndsWith(ToLowerCase(filename), e)

\* Variant of isJunkAttachment: the three limits are inclusive.
isJunkAttachmentInclusive(filename, size) ==
  IF size <= 500 /\ HasImageExtension(filename) THEN TRUE
  ELSE IF size <= 50 * 1024 /\ AnyMatch(JUNK_PATTERNS(filename)) THEN TRUE
  ELSE IF size <= 10 * 1024 /\ AnyMatch(SIZE_DEPENDENT_PATTERNS(filename)) THEN TRUE
  ELSE FALSE

isJunkAttachment(filename, size) ==
  IF size < 500 /\ HasImageExtension(filename) THEN TRUE
  ELSE IF size < 50 * 1024 /\ AnyMatch(JUNK_PATTERNS(filename)) THEN TRUE
  ELSE IF size < 10 * 1024 /\ AnyMatch(SIZE_DEPENDENT_PATTERNS(filename)) THEN TRUE
  ELSE FALSE

\* isRelevantMimeType: const relevant.
RelevantMimeTypes ==
  {
    <<97, 112, 112, 108, 105, 99, 97, 116, 105, 111, 110, 47, 112, 100, 102>>,   \* application/pdf
    <<97, 112, 112, 108, 105, 99, 97, 116, 105, 111, 110, 47, 109, 115, 119, 111, 114, 100>>,   \* application/msword
    <<97, 112, 112, 108, 105, 99, 97, 116, 105, 111, 110, 47, 118, 110, 100, 46, 111, 112, 101, 110, 120, 109, 108, 102, 111, 114, 109, 97, 116, 115, 45, 111, 102, 102, 105, 99, 101, 100, 111, 99, 117, 109, 101, 110, 116>>,   \* application/vnd.openxmlformats-officedocument
    <<97, 112, 112, 108, 105, 99, 97, 116, 105, 111, 110, 47, 118, 110, 100, 46, 109, 115, 45, 101, 120, 99, 101, 108>>,   \* application/vnd.ms-excel
    <<97, 112, 112, 108, 105, 99, 97, 116, 105, 111, 110, 47, 118, 110, 100, 46, 109, 115, 45, 112, 111, 119, 101, 114, 112, 111, 105, 110, 116>>,   \* application/vnd.ms-powerpoint
    <<105, 109, 97, 103, 101, 47, 112, 110, 103>>,   \* image/png
    <<105, 109, 97, 103, 101, 47, 106, 112, 101, 103>>,   \* image/jpeg
    <<105, 109, 97, 103, 101, 47, 116, 105, 102, 102>>,   \* image/tiff
    <<105, 109, 97, 103, 101, 47, 103, 105, 102>>,   \* image/gif
    <<105, 109, 97, 103, 101, 47, 119, 101, 98, 112>>,   \* image/webp
    <<105, 109, 97, 103, 101, 47, 98, 109, 112>>,   \* image/bmp
    <<116, 101, 120, 116, 47, 112, 108, 97, 105, 110>>,   \* text/plain
    <<116, 101, 120, 116, 47, 99, 115, 118>>,   \* text/csv
    <<116, 101, 120, 116, 47, 104, 116, 109, 108>>,   \* text/html
    <<97, 112, 112, 108, 105, 99, 97, 116, 105, 111, 110, 47, 122, 105, 112>>,   \* application/zip
    <<97, 112, 112, 108, 105, 99, 97, 116, 105, 111, 110, 47, 120, 45, 122, 105, 112, 45, 99, 111, 109, 112, 114, 101, 115, 115, 101, 100>>,   \* application/x-zip-compressed
    <<97, 112, 112, 108, 105, 99, 97, 116, 105, 111, 110, 47, 106, 115, 111, 110>>,   \* application/json
    <<97, 112, 112, 108, 105, 99, 97, 116, 105, 111, 110, 47, 120, 109, 108>>   \* application/xml
  }

isRelevantMimeType(mimeType) ==
  \E r \in RelevantMimeTypes : Contains(ToLowerCase(mimeType), ToLowerCase(r))

\* Variant of relevantAttachments: only the junk filter decides.
relevantAttachmentsJunkOnly(a) == ~isJunkAttachment(a.filename, a.size)

\* fetchEmails: the predicate of message.attachments.filter(...).
relevantAttachments(a) ==
  /\ a.size >= 1000
  /\ isRelevantMimeType(a.mimeType)
  /\ ~isJunkAttachment(a.filename, a.size)

\* File names of attachments:
\*   aPng = a.png, aJpeg = A.JPEG, invoicePdf = invoice.pdf, iconPng =
\*   icon.png, icon12Gif = icon_12.gif, iconDashPng = icon-x.png,
\*   iconUnderscorePng = icon_.png, atlPng = atl-generated-1.png, innerAtlPng
\*   = x-atl-generated-1.png, prestaPng = prestashop-logo.png, innerPrestaPng
\*   = my-prestashop-logo.png, cidPdf = xcidforsap.pdf, logoPng = logo.png,
\*   logoUpperJpg = LOGO.JPG, logoSvg = logo.svg, spacerGif = spacer.gif,
\*   spacerJpg = spacer.jpg, pixelPng = pixel.png, pixelBmp = pixel.bmp,
\*   trackingGif = tracking.gif, trackingJpg = tracking.jpg, signaturePdf =
\*   signature.pdf, signatureDocx = Signature-x.docx, innerSignaturePng = my-
\*   signature.png, image001Png = image001.png, image01Png = image01.png,
\*   image0001Png = image0001.png, image123Jpeg = IMAGE123.JPEG, image001Bmp
\*   = image001.bmp, embeddedPdf = embedded_1.pdf, innerEmbeddedPdf =
\*   x-embedded_1.pdf
Names ==
  [ aPng |-> <<97, 46, 112, 110, 103>>,
    aJpeg |-> <<65, 46, 74, 80, 69, 71>>,
    invoicePdf |-> <<105, 110, 118, 111, 105, 99, 101, 46, 112, 100, 102>>,
    iconPng |-> <<105, 99, 111, 110, 46, 112, 110, 103>>,
    icon12Gif |-> <<105, 99, 111, 110, 95, 49, 50, 46, 103, 105, 102>>,
    iconDashPng |-> <<105, 99, 111, 110, 45, 120, 46, 112, 110, 103>>,
    iconUnderscorePng |-> <<105, 99, 111, 110, 95, 46, 112, 110, 103>>,
    atlPng |-> <<97, 116, 108, 45, 103, 101, 110, 101, 114, 97, 116, 101, 100, 45, 49, 46, 112, 110, 103>>,
    innerAtlPng |-> <<120, 45, 97, 116, 108, 45, 103, 101, 110, 101, 114, 97, 116, 101, 100, 45, 49, 46, 112, 110, 103>>,
    prestaPng |-> <<112, 114, 101, 115, 116, 97, 115, 104, 111, 112, 45, 108, 111, 103, 111, 46, 112, 110, 103>>,
    innerPrestaPng |-> <<109, 121, 45, 112, 114, 101, 115, 116, 97, 115, 104, 111, 112, 45, 108, 111, 103, 111, 46, 112, 110, 103>>,
    cidPdf |-> <<120, 99, 105, 100, 102, 111, 114, 115, 97, 112, 46, 112, 100, 102>>,
    logoPng |-> <<108, 111, 103, 111, 46, 112, 110, 103>>,
    logoUpperJpg |-> <<76, 79, 71, 79, 46, 74, 80, 71>>,
    logoSvg |-> <<108, 111, 103, 111, 46, 115, 118, 103>>,
    spacerGif |-> <<115, 112, 97, 99, 101, 114, 46, 103, 105, 102>>,
    spacerJpg |-> <<115, 112, 97, 99, 101, 114, 46, 106, 112, 103>>,
    pixelPng |-> <<112, 105, 120, 101, 108, 46, 112, 110, 103>>,
    pixelBmp |-> <<112, 105, 120, 101, 108, 46, 98, 109, 112>>,
    trackingGif |-> <<116, 114, 97, 99, 107, 105, 110, 103, 46, 103, 105, 102>>,
    trackingJpg |-> <<116, 114, 97, 99, 107, 105, 110, 103, 46, 106, 112, 103>>,
    signaturePdf |-> <<115, 105, 103, 110, 97, 116, 117, 114, 101, 46, 112, 100, 102>>,
    signatureDocx |-> <<83, 105, 103, 110, 97, 116, 117, 114, 101, 45, 120, 46, 100, 111, 99, 120>>,
    innerSignaturePng |-> <<109, 121, 45, 115, 105, 103, 110, 97, 116, 117, 114, 101, 46, 112, 110, 103>>,
    image001Png |-> <<105, 109, 97, 103, 101, 48, 48, 49, 46, 112, 110, 103>>,
    image01Png |-> <<105, 109, 97, 103, 101, 48, 49, 46, 112, 110, 103>>,
    image0001Png |-> <<105, 109, 97, 103, 101, 48, 48, 48, 49, 46, 112, 110, 103>>,
    image123Jpeg |-> <<73, 77, 65, 71, 69, 49, 50, 51, 46, 74, 80, 69, 71>>,
    image001Bmp |-> <<105, 109, 97, 103, 101, 48, 48, 49, 46, 98, 109, 112>>,
    embeddedPdf |-> <<101, 109, 98, 101, 100, 100, 101, 100, 95, 49, 46, 112, 100, 102>>,
    innerEmbeddedPdf |-> <<120, 45, 101, 109, 98, 101, 100, 100, 101, 100, 95, 49, 46, 112, 100, 102>> ]
FileNames ==
  { Names.aPng, Names.aJpeg, Names.invoicePdf, Names.iconPng,
    Names.icon12Gif, Names.iconDashPng, Names.iconUnderscorePng, Names.atlPng,
    Names.innerAtlPng, Names.prestaPng, Names.innerPrestaPng, Names.cidPdf,
    Names.logoPng, Names.logoUpperJpg, Names.logoSvg, Names.spacerGif,
    Names.spacerJpg, Names.pixelPng, Names.pixelBmp, Names.trackingGif,
    Names.trackingJpg, Names.signaturePdf, Names.signatureDocx, Names.innerSignaturePng,
    Names.image001Png, Names.image01Png, Names.image0001Png, Names.image123Jpeg,
    Names.image001Bmp, Names.embeddedPdf, Names.innerEmbeddedPdf }

\* MIME types of attachments:
\*   pdf = application/pdf, pngUpper = IMAGE/PNG, docx =
\*   application/vnd.openxmlformats-officedocument.wordprocessingml.document,
\*   svg = image/svg+xml, octet = application/octet-stream
Mimes ==
  [ pdf |-> <<97, 112, 112, 108, 105, 99, 97, 116, 105, 111, 110, 47, 112, 100, 102>>,
    pngUpper |-> <<73, 77, 65, 71, 69, 47, 80, 78, 71>>,
    docx |-> <<97, 112, 112, 108, 105, 99, 97, 116, 105, 111, 110, 47, 118, 110, 100, 46, 111, 112, 101, 110, 120, 109, 108, 102, 111, 114, 109, 97, 116, 115, 45, 111, 102, 102, 105, 99, 101, 100, 111, 99, 117, 109, 101, 110, 116, 46, 119, 111, 114, 100, 112, 114, 111, 99, 101, 115, 115, 105, 110, 103, 109, 108, 46, 100, 111, 99, 117, 109, 101, 110, 116>>,
    svg |-> <<105, 109, 97, 103, 101, 47, 115, 118, 103, 43, 120, 109, 108>>,
    octet |-> <<97, 112, 112, 108, 105, 99, 97, 116, 105, 111, 110, 47, 111, 99, 116, 101, 116, 45, 115, 116, 114, 101, 97, 109>> ]
MimeTypes == { Mimes.pdf, Mimes.pngUpper, Mimes.docx, Mimes.svg, Mimes.octet }

\* Sizes of attachments in bytes, on both sides of each limit of the filter.
Sizes ==
  { 0, 499, 500, 999, 1000, 9 * 1024, 10 * 1024 - 1, 10 * 1024, 11 * 1024,
    49 * 1024, 50 * 1024 - 1, 50 * 1024, 51 * 1024 }

\* AttachmentInfo, as far as the filter reads it.
Attachments == [filename : FileNames, mimeType : MimeTypes, size : Sizes]

InitFilter ==
  /\ att \in Attachments
  /\ verdict = [step |-> "pending", junk |-> FALSE, kept |-> FALSE]
  /\ disk = MissingFile
  /\ now = 1
  /\ NoManagers
  /\ CliIdle
  /\ ForwarderIdle
  /\ AuxIdle

\* The filter of fetchEmails looks at the attachment: it stays in
\* relevantAttachments or is dropped.
FilterAttachment ==
  /\ verdict.step = "pending"
  /\ verdict' = [step |-> IF relevantAttachments(att) THEN "kept" ELSE "dropped",
                 junk |-> isJunkAttachment(att.filename, att.size),
                 kept |-> relevantAttachments(att)]
  /\ UNCHANGED << att, syncVars, cliVars, forwarderVars, auxVars >>

\* The save loop: the data is obtained and saveAttachmentToFolder returns.
SaveAttachment ==
  /\ verdict.step = "kept"
  /\ verdict' = [verdict EXCEPT !.step = "saved"]
  /\ UNCHANGED << att, syncVars, cliVars, forwarderVars, auxVars >>

\* The save loop: the download or the write throws, the error is logged.
SaveAttachmentFails ==
  /\ verdict.step = "kept"
  /\ verdict' = [verdict EXCEPT !.step = "save-failed"]
  /\ UNCHANGED << att, syncVars, cliVars, forwarderVars, auxVars >>

NextFilter ==
  \/ FilterAttachment
  \/ SaveAttachment
  \/ SaveAttachmentFails

SpecFilter == InitFilter /\ [][NextFilter]_vars

(***************************************************************************)
(* sync-state.ts: SyncStateManager objects in one or two processes, all on *)
(* the state file at SYNC_STATE_PATH.                                      *)
(***************************************************************************)
\* this.state.accounts of a manager.
AccountsOf(m) ==
  IF mem[m].kind = "default" THEN dflt[mem[m].proc] ELSE mem[m].accounts

\* this.state.accounts is an object: reading a property of it does not throw.
HasAccounts(m) == mem[m].kind \in {"default", "own"}

InitManager ==
  /\ disk \in StateFiles
  /\ now = 1
  /\ NoManagers
  /\ FilterIdle
  /\ CliIdle
  /\ ForwarderIdle
  /\ AuxIdle

\* new SyncStateManager(SYNC_STATE_PATH) in process p.  The first manager
\* lives in process 1, the second in either process.
Construct ==
  \E m \in Managers, p \in Procs :
    /\ ~mem[m].constructed
    /\ m = 1 => p = 1
    /\ mem' = [mem EXCEPT ![m] =
                 [constructed |-> TRUE, proc |-> p, kind |-> load(disk).kind,
                  accounts |-> load(disk).accounts, savedAt |-> 0]]
    /\ lastOp' = [m |-> m, op |-> "construct", threw |-> FALSE,
                  changed |-> FALSE, saved |-> FALSE]
    /\ UNCHANGED << disk, now, dflt, filterVars, cliVars, forwarderVars, auxVars >>

\* A method has computed r on the accounts object of manager m; save(), when
\* the method calls it, writes the file or throws.
Mutate(m, op, r, writeOk) ==
  /\ dflt' = IF mem[m].kind = "default"
             THEN [dflt EXCEPT ![mem[m].proc] = r.accounts]
             ELSE dflt
  /\ mem' = [mem EXCEPT
               ![m].accounts = IF mem[m].kind = "default" THEN @ ELSE r.accounts,
               ![m].savedAt = IF r.saves /\ writeOk THEN now ELSE @]
  /\ disk' = IF r.saves /\ writeOk
             THEN writeFileSync(disk, Stringify(r.accounts))
             ELSE disk
  /\ lastOp' = [m |-> m, op |-> op, threw |-> r.saves /\ ~writeOk,
                changed |-> r.accounts # AccountsOf(m),
                saved |-> r.saves /\ writeOk]
  /\ now' = now + 1

\* this.state.accounts[email] throws a TypeError: the state is null or has
\* no accounts.
Throws(m, op) ==
  /\ lastOp' = [m |-> m, op |-> op, threw |-> TRUE, changed |-> FALSE,
                saved |-> FALSE]
  /\ now' = now + 1
  /\ UNCHANGED << disk, dflt, mem >>

\* A manager that can be called before the clock runs out.
Callable(m) == mem[m].constructed /\ now <= MaxClock

\* The outcomes of fs.writeFileSync for a call that reaches save().
WriteOutcomes(r) == IF r.saves THEN BOOLEAN ELSE {TRUE}

CallUpdateAccountState ==
  \E m \in Managers, email \in Emails :
    /\ Callable(m)
    /\ IF HasAccounts(m)
       THEN LET r == updateAccountState(AccountsOf(m), email,
                                        [lastHistoryId |-> Num(now)], now)
            IN \E writeOk \in WriteOutcomes(r) :
                 Mutate(m, "updateAccountState", r, writeOk)
       ELSE Throws(m, "updateAccountState")
    /\ UNCHANGED << filterVars, cliVars, forwarderVars, auxVars >>

CallIncrementStats ==
  \E m \in Managers, email \in Emails, n \in { <<0, 0>>, <<2, 1>> } :
    /\ Callable(m)
    /\ IF HasAccounts(m)
       THEN LET r == incrementStats(AccountsOf(m), email, n[1], n[2], now)
            IN \E writeOk \in WriteOutcomes(r) :
                 Mutate(m, "incrementStats", r, writeOk)
       ELSE Throws(m, "incrementStats")
    /\ UNCHANGED << filterVars, cliVars, forwarderVars, auxVars >>

CallIncrementSentCount ==
  \E m \in Managers, email \in Emails :
    /\ Callable(m)
    /\ IF HasAccounts(m)
       THEN LET r == incrementSentCount(AccountsOf(m), email, now)
            IN \E writeOk \in WriteOutcomes(r) :
                 Mutate(m, "incrementSentCount", r, writeOk)
       ELSE Throws(m, "incrementSentCount")
    /\ UNCHANGED << filterVars, cliVars, forwarderVars, auxVars >>

CallIncrementDraftCount ==
  \E m \in Managers, email \in Emails :
    /\ Callable(m)
    /\ IF HasAccounts(m)
       THEN LET r == incrementDraftCount(AccountsOf(m), email, now)
            IN \E writeOk \in WriteOutcomes(r) :
                 Mutate(m, "incrementDraftCount", r, writeOk)
       ELSE Throws(m, "incrementDraftCount")
    /\ UNCHANGED << filterVars, cliVars, forwarderVars, auxVars >>

NextManager ==
  \/ Construct
  \/ CallUpdateAccountState
  \/ CallIncrementStats
  \/ CallIncrementSentCount
  \/ CallIncrementDraftCount

SpecManager == InitManager /\ [][NextManager]_vars

(***************************************************************************)
(* index.ts: the commands fetch, send and draft of the CLI.  Each command  *)
(* is one process from main() to its exit, with its own DEFAULT_STATE.     *)
(***************************************************************************)
\* main: credentials.json exists, is copied from a client_secret_ file, or
\* neither is there.
Credentials == {"present", "copied", "missing"}

\* new SyncStateManager(SYNC_STATE_PATH) in the command's process.
Loaded == load(disk)
LoadedHasAccounts == Loaded.kind \in {"default", "own"}

\* How fetchEmails can fail outside the loop over the accounts: creating
\* the directories throws ("mkdir") or writing the summary throws
\* ("summary"); both leave fetchEmails.
TopFailures == {"none", "mkdir", "summary"}

\* How the try block of one account can end: authentication or an API call
\* before the window is computed throws ("api"), reading the state throws
\* ("state"), creating the folder of the first message throws ("folder"),
\* getHistoryId throws ("historyId"), the write of updateAccountState
\* ("save1") or of incrementStats ("save2") throws, or nothing does.
AccountFailures ==
  IF LoadedHasAccounts
  THEN {"none", "api", "folder", "historyId", "save1", "save2"}
  ELSE {"api", "state"}

\* The messages fetchMessages returns for an account, each with the
\* outcomes of downloading and saving its relevant attachments.
Batches == { <<>>, << <<FALSE, TRUE>>, <<TRUE>> >> }

\* What happens to one account of a fetch.
Outcomes ==
  { o \in [failure : AccountFailures, batch : Batches] :
      o.failure = "folder" => o.batch # <<>> }

\* fetchArgs[2] and fetchArgs[3]: absent or a date.
StartArgs == {Undefined, Num(2)}
EndArgs == {Undefined, Num(1)}

\* new Date(startDateStr) or new Date("2024-01-01"), the time 0 of the clock.
startDateOf(arg) == IF arg = Undefined THEN 0 ELSE arg.v

\* new Date(endDateStr) or new Date().
endDateOf(arg, t) == IF arg = Undefined THEN t ELSE arg.v

\* getAccounts: 'all' is every account, in the order of ACCOUNTS.
AccountKeys == Emails \cup {"all"}
getAccounts(key) ==
  IF key = "all"
  THEN << "personal@example.com", "business@example.com" >>
  ELSE << key >>

\* SyncStateManager.getLastSyncDate.
getLastSyncDate(accounts, email) ==
  IF email \in DOMAIN accounts /\ Truthy(accounts[email].lastSyncDate)
  THEN accounts[email].lastSyncDate
  ELSE Undefined

\* fetchEmails: const effectiveStart.
effectiveStart(forceHistorical, lastSync, startDate) ==
  IF ~forceHistorical /\ Truthy(lastSync) /\ lastSync.v > startDate
  THEN lastSync.v
  ELSE startDate

\* formatDateForQuery in after:<date>: the window starts with the day of
\* the date; a day is two ticks of the clock.
formatDateForQuery(t) == (t \div 2) * 2

\* The loop over relevantAttachments, lines 975-995: a download or save
\* that throws is caught and the loop goes on.
RECURSIVE saveAttachments(_, _)
saveAttachments(outcomes, attachmentCount) ==
  IF outcomes = <<>>
  THEN [attachmentCount |-> attachmentCount, tried |-> 0]
  ELSE LET rest == saveAttachments(Tail(outcomes),
                                   IF Head(outcomes) THEN attachmentCount + 1
                                   ELSE attachmentCount)
       IN [attachmentCount |-> rest.attachmentCount, tried |-> rest.tried + 1]

\* The loop over messages, lines 962-1000.
RECURSIVE processMessages(_, _)
processMessages(batch, attachmentCount) ==
  IF batch = <<>>
  THEN [attachmentCount |-> attachmentCount, tried |-> 0, emailCount |-> 0]
  ELSE LET a == saveAttachments(Head(batch), attachmentCount)
           rest == processMessages(Tail(batch), a.attachmentCount)
       IN [attachmentCount |-> rest.attachmentCount,
           tried |-> a.tried + rest.tried,
           emailCount |-> rest.emailCount + 1]

\* The try block of one account, lines 934-1017, at time t: st is the state
\* of the manager and the state file before it.
fetchAccount(st, email, o, forceHistorical, startDate, t) ==
  LET lastSync == getLastSyncDate(st.accounts, email)
      start == effectiveStart(forceHistorical, lastSync, startDate)
      loop == processMessages(o.batch, 0)
      u == updateAccountState(st.accounts, email,
                              [lastHistoryId |-> Num(t)], t)
      i == incrementStats(u.accounts, email, Len(o.batch),
                          loop.attachmentCount, t)
      listed == o.failure \notin {"api", "state"}
      looped == o.failure \in {"none", "historyId", "save1", "save2"}
  IN [accounts |-> IF o.failure = "save1" THEN u.accounts
                   ELSE IF o.failure \in {"save2", "none"} THEN i.accounts
                   ELSE st.accounts,
      disk |-> IF o.failure = "save2"
               THEN writeFileSync(st.disk, Stringify(u.accounts))
               ELSE IF o.failure = "none"
               THEN writeFileSync(writeFileSync(st.disk, Stringify(u.accounts)),
                                  Stringify(i.accounts))
               ELSE st.disk,
      result |-> [email |-> email, failure |-> o.failure, batch |-> o.batch,
                  listed |-> listed,
                  start |-> IF listed THEN formatDateForQuery(start) ELSE 0,
                  looped |-> looped,
                  tried |-> IF looped THEN loop.tried ELSE 0,
                  attachmentCount |->
                    IF looped THEN loop.attachmentCount ELSE 0]]

\* The loop over the accounts, lines 929-1018, with the one manager of
\* line 924.
RECURSIVE fetchAccounts(_, _, _, _, _, _)
fetchAccounts(st, emails, outcomes, forceHistorical, startDate, t) ==
  IF emails = <<>>
  THEN [accounts |-> st.accounts, disk |-> st.disk, results |-> <<>>]
  ELSE LET a == fetchAccount(st, Head(emails), Head(outcomes),
                             forceHistorical, startDate, t)
           rest == fetchAccounts([accounts |-> a.accounts, disk |-> a.disk],
                                 Tail(emails), Tail(outcomes), forceHistorical,
                                 startDate, t)
       IN [accounts |-> rest.accounts, disk |-> rest.disk,
           results |-> <<a.result>> \o rest.results]

\* How sendEmail and createDraft can fail: the arguments are rejected
\* ("usage"), authentication or the API call throws ("api"), the
\* increment throws on the state ("state") or on its write ("save").
CountFailures(r) ==
  IF ~LoadedHasAccounts THEN {"usage", "api", "state"}
  ELSE IF r.saves THEN {"none", "usage", "api", "save"}
  ELSE {"none", "usage", "api"}

InitCli ==
  /\ disk = MissingFile
  /\ now = 1
  /\ CliIdle
  /\ NoManagers
  /\ FilterIdle
  /\ ForwarderIdle
  /\ AuxIdle

\* A command other than a fetch that got to its accounts.
NoFetchRun ==
  [forceHistorical |-> FALSE, startArg |-> Undefined, endDate |-> 0,
   before |-> MissingFile, previous |-> NoTally.lastFetch, results |-> <<>>]

\* main finds no credentials: process.exit(1) before any command runs.
NoCredentials(cmd, account) ==
  /\ cli' = [cmd |-> cmd, account |-> account, credentials |-> "missing",
             failure |-> "none", topLevel |-> FALSE, exit |-> 1,
             run |-> NoFetchRun]
  /\ UNCHANGED << disk, tally >>

\* fetchEmails and the end of its process: every account of the key is
\* fetched in turn unless creating the directories throws.  An error that
\* leaves fetchEmails reaches main().catch(console.error): it is printed
\* and the process ends with code 0, like a run without error.
Fetch(key, credentials, failure, forceHistorical, startArg, endArg, outcomes) ==
  LET st == [accounts |-> Loaded.accounts, disk |-> disk]
      r == IF failure = "mkdir"
           THEN [accounts |-> st.accounts, disk |-> disk, results |-> <<>>]
           ELSE fetchAccounts(st, getAccounts(key), outcomes, forceHistorical,
                              startDateOf(startArg), now)
      done == { k \in 1..Len(r.results) : r.results[k].failure = "none" }
      of(e) == CHOOSE k \in done : r.results[k].email = e
      fetched == { r.results[k].email : k \in done }
  IN
  /\ disk' = r.disk
  /\ tally' =
       [ops |-> [e \in Emails |->
                   IF e \in fetched
                   THEN [tally.ops[e] EXCEPT
                           !.fetched = @ + Len(outcomes[of(e)].batch),
                           !.attachments =
                             @ + r.results[of(e)].attachmentCount]
                   ELSE tally.ops[e]],
        saveFailed |->
          tally.saveFailed
            \/ \E k \in 1..Len(r.results) :
                 r.results[k].failure \in {"save1", "save2"},
        lastFetch |->
          [e \in Emails |->
             IF e \in fetched
             THEN [done |-> TRUE, completed |-> now,
                   endDate |-> endDateOf(endArg, now)]
             ELSE tally.lastFetch[e]]]
  /\ cli' = [cmd |-> "fetch", account |-> key, credentials |-> credentials,
             failure |-> failure,
             topLevel |-> failure \in {"mkdir", "summary"}, exit |-> 0,
             run |-> [forceHistorical |-> forceHistorical,
                      startArg |-> startArg,
                      endDate |-> endDateOf(endArg, now),
                      before |-> disk,
                      previous |-> tally.lastFetch,
                      results |-> r.results]]

\* pnpm fetch <account>: one account, no dates and no --force; at most one
\* thing fails in the run.
RunFetch ==
  /\ now <= MaxCommands
  /\ \E key \in Emails, credentials \in Credentials :
       IF credentials = "missing"
       THEN NoCredentials("fetch", key)
       ELSE \E failure \in TopFailures, o \in Outcomes :
              /\ failure # "none" => o.failure = "none"
              /\ failure = "mkdir" => o.batch = <<>>
              /\ Fetch(key, credentials, failure, FALSE, Undefined, Undefined,
                       << o >>)
  /\ now' = now + 1
  /\ UNCHANGED << dflt, mem, lastOp, filterVars, forwarderVars, auxVars >>

\* sendEmail and createDraft after main: the API call, then a new manager
\* and its increment r; every error ends the process with code 1.
Counted(cmd, account, credentials, failure, r, counter) ==
  LET done == failure \in {"none", "state", "save"}
  IN
  /\ disk' = IF failure = "none" /\ r.saves
             THEN writeFileSync(disk, Stringify(r.accounts))
             ELSE disk
  /\ tally' = [ops |-> IF done
                       THEN [tally.ops EXCEPT ![account][counter] = @ + 1]
                       ELSE tally.ops,
               saveFailed |-> tally.saveFailed \/ failure = "save",
               lastFetch |-> tally.lastFetch]
  /\ cli' = [cmd |-> cmd, account |-> account, credentials |-> credentials,
             failure |-> failure, topLevel |-> FALSE,
             exit |-> IF failure = "none" THEN 0 ELSE 1, run |-> NoFetchRun]

\* pnpm send <account> --to ... --subject ... --body ...
RunSend ==
  /\ now <= MaxCommands
  /\ \E account \in Emails, credentials \in Credentials :
       IF credentials = "missing"
       THEN NoCredentials("send", account)
       ELSE LET r == incrementSentCount(Loaded.accounts, account, now)
            IN \E failure \in CountFailures(r) :
                 Counted("send", account, credentials, failure, r, "sent")
  /\ now' = now + 1
  /\ UNCHANGED << dflt, mem, lastOp, filterVars, forwarderVars, auxVars >>

\* pnpm draft <account> --to ... --subject ... --body ...
RunDraft ==
  /\ now <= MaxCommands
  /\ \E account \in Emails, credentials \in Credentials :
       IF credentials = "missing"
       THEN NoCredentials("draft", account)
       ELSE LET r == incrementDraftCount(Loaded.accounts, account, now)
            IN \E failure \in CountFailures(r) :
                 Counted("draft", account, credentials, failure, r, "drafts")
  /\ now' = now + 1
  /\ UNCHANGED << dflt, mem, lastOp, filterVars, forwarderVars, auxVars >>

NextCli ==
  \/ RunFetch
  \/ RunSend
  \/ RunDraft

SpecCli == InitCli /\ [][NextCli]_vars

\* pnpm fetch <account> [start] [end] [--force], with its dates and flag:
\* the account is fetched or authentication fails.
FetchWindowed ==
  /\ now <= MaxCommands
  /\ \E key \in Emails, forceHistorical \in BOOLEAN, startArg \in StartArgs,
        endArg \in EndArgs, failure \in {"none", "api"} :
       /\ LoadedHasAccounts
       /\ Fetch(key, "present", "none", forceHistorical, startArg, endArg,
                << [failure |-> failure, batch |-> <<>>] >>)
  /\ now' = now + 1
  /\ UNCHANGED << dflt, mem, lastOp, filterVars, forwarderVars, auxVars >>

NextWindow ==
  \/ FetchWindowed
  \/ RunSend
  \/ RunDraft

\* Sequences of fetch, send and draft commands with the options of fetch.
SpecWindow == InitCli /\ [][NextWindow]_vars

\* One fetch of one or of all accounts, on a state file earlier commands
\* left.
InitFetch ==
  /\ disk \in { MissingFile,
                StateFile(MapPut(EmptyMap, "personal@example.com",
                                 NewAccount(1))),
                StateFile(MapPut(MapPut(EmptyMap, "personal@example.com",
                                        NewAccount(1)),
                                 "business@example.com", NewAccount(1))) }
  /\ now = 2
  /\ CliIdle
  /\ NoManagers
  /\ FilterIdle
  /\ ForwarderIdle
  /\ AuxIdle

\* pnpm fetch <key>: any of the accounts may fail, each in its own way.
FetchAll ==
  /\ cli.cmd = "none"
  /\ \E key \in AccountKeys, failure \in TopFailures :
     \E outcomes \in [1..Len(getAccounts(key)) -> Outcomes] :
       Fetch(key, "present", failure, FALSE, Undefined, Undefined, outcomes)
  /\ now' = now + 1
  /\ UNCHANGED << dflt, mem, lastOp, filterVars, forwarderVars, auxVars >>

NextFetch == FetchAll

SpecFetch == InitFetch /\ [][NextFetch]_vars

(***************************************************************************)
(* forward-invoices.mjs: the query main hands to users.messages.list.      *)
(***************************************************************************)
InitQuery ==
  /\ sinceArgs \in SinceArgs
  /\ query = [step |-> "pending", threw |-> FALSE, text |-> <<>>]
  /\ SaveIdle
  /\ ListIdle
  /\ AuthIdle
  /\ ForwarderIdle
  /\ EmailManagerIdle

\* main, line 230: buildSearchQuery(sinceDate).  since.replace throws a
\* TypeError when sinceDate is undefined.
BuildQuery ==
  /\ query.step = "pending"
  /\ LET since == sinceDate(sinceArgs)
     IN query' = IF since.t = "string"
                 THEN [step |-> "built", threw |-> FALSE,
                       text |-> buildSearchQuery(since.v)]
                 ELSE [step |-> "built", threw |-> TRUE, text |-> <<>>]
  /\ UNCHANGED << sinceArgs, saveVars, listVars, authVars, forwarderVars, emailManagerVars >>

NextQuery == BuildQuery

SpecQuery == InitQuery /\ [][NextQuery]_vars

(***************************************************************************)
(* index.ts: the attachments of one message are saved one after another.   *)
(***************************************************************************)
InitSave ==
  /\ folder \in InitialFolders
  /\ saves = <<>>
  /\ QueryIdle
  /\ ListIdle
  /\ AuthIdle
  /\ ForwarderIdle
  /\ EmailManagerIdle

\* fetchEmails, line 989: saveAttachmentToFolder(data, attachment,
\* emailFolder).  fs.writeFileSync may throw, and then nothing is written.
SaveToFolder ==
  \E filename \in AttachmentNames, data \in Buffers, writeOk \in BOOLEAN :
    /\ Len(saves) < MaxSaves
    /\ LET r == saveAttachmentToFolder(folder, data, filename)
       IN /\ folder' = IF writeOk THEN r.files ELSE folder
          /\ saves' = Append(saves, [safe |-> safeFilename(filename),
                                     path |-> r.path, threw |-> ~writeOk])
    /\ UNCHANGED << queryVars, listVars, authVars, forwarderVars, emailManagerVars >>

NextSave == SaveToFolder

SpecSave == InitSave /\ [][NextSave]_vars

(***************************************************************************)
(* gmail.ts: one call of fetchMessages, one page at a time.                *)
(***************************************************************************)
InitList ==
  /\ listing \in 0..MaxListed
  /\ \E maxResults \in MaxResultsOptions :
       fetch = [pc |-> "paging", maxResults |-> maxResults,
                pageToken |-> Undefined, messages |-> <<>>, pages |-> <<>>,
                gets |-> 0, failed |-> {}]
  /\ QueryIdle
  /\ SaveIdle
  /\ AuthIdle
  /\ ForwarderIdle
  /\ EmailManagerIdle

\* One iteration of the do-while loop, lines 49-75.  The API returns the
\* next messages of the listing, at least one while any is left and no more
\* than it was asked for, and a nextPageToken while more are left; any of
\* the getMessage calls may fail.
ListPage ==
  /\ fetch.pc = "paging"
  /\ LET offset == IF fetch.pageToken.t = "number" THEN fetch.pageToken.v ELSE 0
         left == listing - offset
     IN \E n \in 0..Min(MaxPageLen, Min(left, pageSize(fetch.maxResults))) :
        \E failed \in SUBSET ((offset + 1)..(offset + n)) :
          /\ (left > 0) => (n > 0)
          /\ LET page == [k \in 1..n |-> offset + k]
                 r == collect(page, failed, fetch.messages, fetch.maxResults)
                 nextPageToken ==
                   IF offset + n < listing THEN Num(offset + n) ELSE Undefined
             IN fetch' =
                  [fetch EXCEPT
                     !.messages = r.messages,
                     !.pages = Append(@, [from |-> offset, length |-> n]),
                     !.gets = offset + r.gets,
                     !.failed = @ \cup { i \in failed : i <= offset + r.gets },
                     !.pageToken = nextPageToken,
                     !.pc = IF limitReached(fetch.maxResults, Len(r.messages))
                               \/ nextPageToken.t = "undefined"
                            THEN "returned" ELSE "paging"]
  /\ UNCHANGED << listing, queryVars, saveVars, authVars, forwarderVars, emailManagerVars >>

\* users.messages.list rejects, line 50: fetchMessages rejects with it.
ListThrows ==
  /\ fetch.pc = "paging"
  /\ fetch' = [fetch EXCEPT !.pc = "threw"]
  /\ UNCHANGED << listing, queryVars, saveVars, authVars, forwarderVars, emailManagerVars >>

NextList == ListPage \/ ListThrows

SpecList == InitList /\ [][NextList]_vars

\* The call proceeds while a response is due.
FairSpecList == SpecList /\ WF_vars(NextList)

(***************************************************************************)
(* auth.ts: one call of getAuthenticatedClient, with the interactive flow  *)
(* it may start.  Date.now() reads 2.                                      *)
(***************************************************************************)
InitAuth ==
  /\ tokenFile \in TokenFiles
  /\ client = NoToken
  /\ auth = [pc |-> "start", path |-> "none", writes |-> 0, crashed |-> FALSE]
  /\ flow = NoFlow
  /\ callbacks = [r \in Requests |-> "none"]
  /\ now = 2
  /\ disk = MissingFile
  /\ NoManagers
  /\ FilterIdle
  /\ CliIdle
  /\ QueryIdle
  /\ SaveIdle
  /\ ListIdle
  /\ ForwarderIdle

\* What a step of auth.ts leaves alone.
authFrame ==
  << queryVars, saveVars, listVars, forwarderVars, emailManagerVars >>

\* authenticateInteractively up to the end of the executor, lines 91-145:
\* the server listens and the timer is armed.
BeginInteractive ==
  /\ auth' = [auth EXCEPT !.pc = "interactive"]
  /\ flow' = [server |-> "listening", timer |-> "armed", settled |-> "pending",
              lateSave |-> FALSE]

\* resolve(oauth2Client): the promise settles if it is pending, and with it
\* the call of getAuthenticatedClient that returned it.
Resolve ==
  IF flow.settled = "pending"
  THEN /\ flow' = [flow EXCEPT !.server = "closed", !.settled = "resolved"]
       /\ auth' = [auth EXCEPT !.pc = "returned", !.path = "interactive",
                               !.writes = @ + 1]
  ELSE /\ flow' = [flow EXCEPT !.server = "closed",
                               !.lateSave = @ \/ flow.settled = "timeout"]
       /\ auth' = [auth EXCEPT !.writes = @ + 1]

\* reject(error), after server.close().
Reject(why) ==
  IF flow.settled = "pending"
  THEN /\ flow' = [flow EXCEPT !.server = "closed", !.settled = why,
                               !.timer = IF why = "timeout" THEN "fired" ELSE @]
       /\ auth' = [auth EXCEPT !.pc = "rejected"]
  ELSE /\ flow' = [flow EXCEPT !.server = "closed",
                               !.timer = IF why = "timeout" THEN "fired" ELSE @]
       /\ auth' = auth

\* getAuthenticatedClient up to its first await, lines 36-49 and 70.
AuthStart ==
  \E credentialsOk \in BOOLEAN :
    /\ auth.pc = "start"
    /\ IF ~credentialsOk \/ tokenFile.kind = "invalid"
       THEN /\ auth' = [auth EXCEPT !.pc = "rejected"]
            /\ UNCHANGED << client, flow >>
       ELSE IF tokenFile.kind = "missing"
       THEN /\ BeginInteractive
            /\ UNCHANGED client
       ELSE /\ client' = tokenFile.token
            /\ auth' = IF isExpired(tokenFile.token, now)
                       THEN [auth EXCEPT !.pc = "refreshing"]
                       ELSE [auth EXCEPT !.pc = "returned", !.path = "stored"]
            /\ UNCHANGED flow
    /\ UNCHANGED << tokenFile, callbacks >>
    /\ UNCHANGED authFrame

\* Variant of RefreshOk: the client is returned without saving the token.
RefreshOkUnsaved ==
  /\ auth.pc = "refreshing"
  /\ client' = Token("refreshed", 0, Num(3))
  /\ auth' = [auth EXCEPT !.pc = "returned", !.path = "refresh"]
  /\ UNCHANGED << tokenFile, flow, callbacks >>
  /\ UNCHANGED authFrame

\* refreshAccessToken resolves, lines 50-53 and 68: the new credentials are
\* set and saved; when saveToken throws, the catch of line 54 starts the
\* interactive flow.
RefreshOk ==
  \E writeOk \in BOOLEAN :
    /\ auth.pc = "refreshing"
    /\ client' = Token("refreshed", 0, Num(3))
    /\ IF writeOk
       THEN /\ tokenFile' = saveToken(tokenFile, client')
            /\ auth' = [auth EXCEPT !.pc = "returned", !.path = "refresh",
                                    !.writes = @ + 1]
            /\ UNCHANGED flow
       ELSE /\ BeginInteractive
            /\ UNCHANGED tokenFile
    /\ UNCHANGED callbacks
    /\ UNCHANGED authFrame

\* refreshAccessToken rejects, lines 54-57.
RefreshFails ==
  /\ auth.pc = "refreshing"
  /\ BeginInteractive
  /\ UNCHANGED << tokenFile, client, callbacks >>
  /\ UNCHANGED authFrame

\* A request arrives while the server listens.
Arrives(r) ==
  /\ ~auth.crashed
  /\ flow.server = "listening"
  /\ callbacks[r] = "none"

\* The request carries an error, lines 107-113.
CallbackError ==
  \E r \in Requests :
    /\ Arrives(r)
    /\ callbacks' = [callbacks EXCEPT ![r] = "error"]
    /\ Reject("error")
    /\ UNCHANGED << tokenFile, client >>
    /\ UNCHANGED authFrame

\* The request carries a code, lines 115-121: the response is sent and the
\* handler awaits getToken.
CallbackCode ==
  \E r \in Requests :
    /\ Arrives(r)
    /\ callbacks' = [callbacks EXCEPT ![r] = "exchanging"]
    /\ UNCHANGED << tokenFile, client, auth, flow >>
    /\ UNCHANGED authFrame

\* The request carries neither, lines 105-127: the handler returns.
CallbackOther ==
  \E r \in Requests :
    /\ Arrives(r)
    /\ callbacks' = [callbacks EXCEPT ![r] = "ignored"]
    /\ UNCHANGED << tokenFile, client, auth, flow >>
    /\ UNCHANGED authFrame

\* The catch of lines 128-133 after the response of line 116 was sent:
\* res.writeHead(500) throws once headers are sent, and then neither
\* server.close() nor reject(error) runs; the rejection of the handler
\* ends the process or is only reported, as the runtime is set up.  A
\* runtime that lets writeHead pass runs both.
HandlerCatch(r) ==
  \E outcome \in {"rejects", "throws", "crashes"} :
    IF outcome = "rejects"
    THEN /\ callbacks' = [callbacks EXCEPT ![r] = "failed"]
         /\ Reject("exchange")
    ELSE /\ callbacks' = [callbacks EXCEPT ![r] = "threw"]
         /\ auth' = [auth EXCEPT !.crashed = (outcome = "crashes")]
         /\ UNCHANGED flow

\* getToken resolves, lines 121-126: credentials set, token saved, server
\* closed, promise resolved; when saveToken throws, the catch runs.
ExchangeOk ==
  \E r \in Requests, writeOk \in BOOLEAN :
    /\ ~auth.crashed
    /\ callbacks[r] = "exchanging"
    /\ client' = Token("exchanged", r, Num(3))
    /\ IF writeOk
       THEN /\ tokenFile' = saveToken(tokenFile, client')
            /\ callbacks' = [callbacks EXCEPT ![r] = "saved"]
            /\ Resolve
       ELSE /\ HandlerCatch(r)
            /\ UNCHANGED tokenFile
    /\ UNCHANGED authFrame

\* getToken rejects, line 121.
ExchangeFails ==
  \E r \in Requests :
    /\ ~auth.crashed
    /\ callbacks[r] = "exchanging"
    /\ HandlerCatch(r)
    /\ UNCHANGED << tokenFile, client >>
    /\ UNCHANGED authFrame

\* The timer of lines 141-144 fires; nothing clears it.
Timeout ==
  /\ ~auth.crashed
  /\ flow.timer = "armed"
  /\ Reject("timeout")
  /\ UNCHANGED << tokenFile, client, callbacks >>
  /\ UNCHANGED authFrame

NextAuth ==
  \/ AuthStart
  \/ RefreshOk
  \/ RefreshFails
  \/ CallbackError
  \/ CallbackCode
  \/ CallbackOther
  \/ ExchangeOk
  \/ ExchangeFails
  \/ Timeout

SpecAuth == InitAuth /\ [][NextAuth]_vars


(***************************************************************************)
(* Vocabulary of the properties.                                           *)
(***************************************************************************)
\* A file name ends in ".pdf", compared case-insensitively.
IsPdfName(f) ==
  /\ Len(f) >= 4
  /\ f[Len(f) - 3] = 46
  /\ f[Len(f) - 2] \in {112, 80}
  /\ f[Len(f) - 1] \in {100, 68}
  /\ f[Len(f)] \in {102, 70}

\* Some part of the MIME tree rooted at `part`, the root included, has a
\* file name ending in ".pdf".
RECURSIVE TreeHasPdf(_)
TreeHasPdf(part) ==
  \/ IsPdfName(part.filename)
  \/ part.hasParts /\ \E k \in 1..Len(part.parts) : TreeHasPdf(part.parts[k])

\* The candidates whose full-format get returned.
Classified == { k \in 1..Len(disp) : resp[k] # "full-get-failed" }
\* The candidates main treated as forward.
ForwardDisps == {"would-forward", "forwarded", "forward-failed"}
\* The API outcomes with which forwardEmail fails.
ForwardFailures == {"raw-get-failed", "no-raw", "send-failed"}

LogHasId(log, id) == \E k \in 1..Len(log) : log[k].id = id
IdsOf(log) == [k \in 1..Len(log) |-> log[k].id]
NoExecuteFlag(argv) == \A k \in 1..Len(argv) : argv[k] # "--execute"
Ended == pc \in {"done", "exited"}

\* The ids of the first n candidates that pass main's PDF check, in order.
RECURSIVE PassingIds(_)
PassingIds(n) ==
  IF n = 0 THEN <<>>
  ELSE IF hasPdfAttachment(messages[n])
       THEN Append(PassingIds(n - 1), messages[n].id)
       ELSE PassingIds(n - 1)

\* base64url decoding (RFC 4648 section 5, no padding) of a string.
UrlValue(c) ==
  IF c \in 65..90 THEN c - 65
  ELSE IF c \in 97..122 THEN c - 71
  ELSE IF c \in 48..57 THEN c + 4
  ELSE IF c = 45 THEN 62 ELSE 63
Base64UrlDecode(s) ==
  [j \in 1..((Len(s) * 6) \div 8) |->
     LET q == ((8 * (j - 1)) \div 6) + 1
         r == (8 * (j - 1)) % 6
         a == UrlValue(s[q])
         b == UrlValue(s[q + 1])
     IN IF r = 0 THEN a * 4 + (b \div 16)
        ELSE IF r = 2 THEN (a % 16) * 16 + (b \div 4)
        ELSE (a % 4) * 64 + b]

\* Everything after the first blank line of a byte stream.
AfterBlankLine(bs) ==
  LET at(k) == bs[k] = 10 /\ bs[k + 1] = 10
      first == CHOOSE k \in 1..(Len(bs) - 1) :
                 at(k) /\ \A j \in 1..(k - 1) : ~at(j)
  IN SubSeq(bs, first + 2, Len(bs))

C2_ForwardIffPdfInTree ==
  \A k \in Classified :
    disp[k] \in ForwardDisps <=> TreeHasPdf(messages[k].payload)

(***************************************************************************)
(* C3.  In a run started without --execute no send call is issued, and the *)
(* would-forward log lists exactly the candidates that pass the PDF check, *)
(* in processing order; the log file, when written, is that list.          *)
(***************************************************************************)
C3_DryRunSendsNothing ==
  NoExecuteFlag(args) =>
    /\ sendCalls = <<>>
    /\ sentOk = <<>>
    /\ IdsOf(forwardedLog) = PassingIds(Cardinality(Classified))
    /\ logWrites > 0 => logFile = forwardedLog

\* A dry run over two candidates that pass the PDF check has ended with
\* both in the log file.
C3_Witness ==
  /\ NoExecuteFlag(args)
  /\ pc = "done"
  /\ Len(logFile) = 2
  /\ disp = <<"would-forward", "would-forward">>

(***************************************************************************)
(* C4.  Forwarding is a lossless round trip: base64url-decoding the string *)
(* submitted to the send endpoint and taking everything after the          *)
(* envelope's blank line yields the bytes of the original raw message.     *)
(***************************************************************************)
C4_RoundTrip ==
  lastSent.valid =>
    AfterBlankLine(Base64UrlDecode(lastSent.encoded)) = messages[lastSent.id].rawBytes

C6_FullGetFailureContained ==
  \A k \in 1..Len(resp) :
    resp[k] = "full-get-failed" => (pc = "loop" \/ summary.printed)

(***************************************************************************)
(* C7.  When an execute run has ended (and writing the file did not        *)
(* fail), the log file lists exactly the messages whose send succeeded.    *)
(***************************************************************************)
C7_LogIsCompleteAuditTrail ==
  (Ended /\ ~isDryRun(args) /\ ~(pc = "exited" /\ summary.printed)) =>
    IdsOf(logFile) = sentOk

(***************************************************************************)
(* C8.  The log file is written at most once per run, only after the last  *)
(* candidate has been processed, and only when the log has an entry: a     *)
(* run that ends with an empty log has written no file.                    *)
(***************************************************************************)
C8_LogWrittenOnceAtEnd ==
  /\ logWrites <= 1
  /\ logWrites = 1 =>
       /\ Len(messages) > 0
       /\ processed = Len(messages)
       /\ Len(disp) = Len(messages)
       /\ Len(logFile) > 0
       /\ logFile = forwardedLog
       /\ ~(pc \in {"idle", "search", "loop"})
  /\ logWrites = 0 => logFile = <<>>
  /\ (Ended /\ forwardedLog = <<>>) => logWrites = 0

\* One run has written its file, another has ended without entries and
\* without a file.
C8_Witness ==
  \/ pc = "done" /\ logWrites = 1 /\ Len(messages) = 2 /\ Len(logFile) = 1
  \/ pc = "done" /\ logWrites = 0 /\ disp = <<"forward-failed", "skip-no-pdf">>

(***************************************************************************)
(* C9.  When a run with a non-empty search result prints its summary, the  *)
(* counts partition the candidates: processed = total matched, and         *)
(* (would-)forward + skipped = total matched; one PDF candidate and one    *)
(* non-PDF candidate in a dry run give 2, 2, 1, 1.                         *)
(***************************************************************************)
C9_SummaryPartitions ==
  summary.printed =>
    /\ summary.total = Len(mailbox)
    /\ summary.total > 0
    /\ summary.processed = summary.total
    /\ summary.forward + summary.skip = summary.total
    /\ summary.forward =
         Cardinality({ k \in 1..Len(disp) : disp[k] \in {"would-forward", "forwarded"} })
    /\ (isDryRun(args) /\ Len(mailbox) = 2
          /\ mailbox[1].payload = PdfPayload /\ mailbox[2].payload = PngPayload) =>
         summary = [printed |-> TRUE, total |-> 2, processed |-> 2,
                    forward |-> 1, skip |-> 1]

\* The dry run of the example has printed its summary; so has an execute
\* run with a failed forward.
C9_Witness ==
  /\ summary.printed
  /\ Len(mailbox) = 2
  /\ \/ /\ isDryRun(args)
        /\ mailbox[1].payload = PdfPayload
        /\ mailbox[2].payload = PngPayload
     \/ /\ ~isDryRun(args)
        /\ disp = <<"forward-failed", "forwarded">>

(***************************************************************************)
(* C10.  Two runs in the same mode against the same mailbox that receive   *)
(* the same API responses treat every candidate alike and produce the same *)
(* log entries, whatever an earlier run did.                               *)
(***************************************************************************)
C10_Deterministic ==
  (prev.valid /\ isDryRun(prev.args) = isDryRun(args)) =>
    /\ \A k \in 1..Len(disp) :
         (k <= Len(prev.resp) /\ SubSeq(prev.resp, 1, k) = SubSeq(resp, 1, k)) =>
           prev.disp[k] = disp[k]
    /\ (Ended /\ prev.resp = resp) =>
         (disp = prev.disp /\ forwardedLog = prev.log /\ sendCalls = prev.sends)

\* A second execute run has ended having seen the same responses as the
\* first, among them a successful and a failed forward.
C10_Witness ==
  /\ prev.valid
  /\ ~isDryRun(args)
  /\ ~isDryRun(prev.args)
  /\ pc = "done"
  /\ prev.resp = resp
  /\ disp = <<"forwarded", "forward-failed">>

Occurrences(calls, id) == Cardinality({ k \in 1..Len(calls) : calls[k] = id })

(***************************************************************************)
(* C12.  There is no retry: for each candidate at most one raw get and at  *)
(* most one send is issued, whether the calls succeed or fail, and the     *)
(* number of send calls never exceeds the number of candidates that pass   *)
(* the PDF check.                                                          *)
(***************************************************************************)
C12_NoRetry ==
  /\ \A k \in 1..Len(messages) :
       /\ Occurrences(rawGets, messages[k].id) <= 1
       /\ Occurrences(sendCalls, messages[k].id) <= 1
       /\ k > Len(disp) =>
            /\ Occurrences(rawGets, messages[k].id) = 0
            /\ Occurrences(sendCalls, messages[k].id) = 0
       /\ (k <= Len(disp) /\ resp[k] = "send-failed") =>
            /\ Occurrences(rawGets, messages[k].id) = 1
            /\ Occurrences(sendCalls, messages[k].id) = 1
       /\ (k <= Len(disp) /\ resp[k] = "raw-get-failed") =>
            /\ Occurrences(rawGets, messages[k].id) = 1
            /\ Occurrences(sendCalls, messages[k].id) = 0
  /\ Len(sendCalls) <= Len(rawGets)
  /\ Len(rawGets) <= Len(PassingIds(Cardinality(Classified)))

\* An execute run has ended after a failed raw get for its first candidate
\* and a failed send for its second.
C12_Witness ==
  /\ pc = "done"
  /\ resp = <<"raw-get-failed", "send-failed">>
  /\ Len(rawGets) = 2
  /\ Len(sendCalls) = 1

\* The attachment has been through the filter of fetchEmails.
Filtered == verdict.step \in {"kept", "dropped", "saved", "save-failed"}

\* File names with an image extension that no pattern of rule 2 or 3 names.
PlainImageNames == { Names.aPng, Names.aJpeg }
\* File names the patterns of rule 2 name.
Rule2Names ==
  { Names.iconPng, Names.icon12Gif, Names.atlPng, Names.prestaPng, Names.cidPdf,
    Names.logoPng, Names.logoUpperJpg, Names.spacerGif, Names.pixelPng,
    Names.trackingGif, Names.signaturePdf, Names.signatureDocx }
\* File names the patterns of rule 3 name.
Rule3Names ==
  { Names.image001Png, Names.image123Jpeg, Names.embeddedPdf }
\* File names that only a loose reading of rule 2 covers.
GlobOnlyNames ==
  { Names.iconDashPng, Names.iconUnderscorePng, Names.innerAtlPng, Names.innerPrestaPng,
    Names.logoSvg, Names.spacerJpg, Names.pixelBmp, Names.trackingJpg }

(***************************************************************************)
(* C14.  The limits of the junk filter are strict: a file with an image    *)
(* extension that no pattern names is junk iff its size is below 500 (499  *)
(* junk, 500 not); a name of rule 2 such as logo.png is junk iff its size  *)
(* is below 50*1024 (49 KB junk, 51 KB not); a name of rule 3 such as      *)
(* image001.png is junk iff its size is below 10*1024.                     *)
(***************************************************************************)
C14_StrictLimits ==
  Filtered =>
    /\ att.filename \in PlainImageNames => (verdict.junk <=> att.size < 500)
    /\ att.filename \in Rule2Names => (verdict.junk <=> att.size < 50 * 1024)
    /\ att.filename \in Rule3Names => (verdict.junk <=> att.size < 10 * 1024)
    /\ (att.filename = Names.aPng /\ att.size = 499) => verdict.junk
    /\ (att.filename = Names.aPng /\ att.size = 500) => ~verdict.junk
    /\ (att.filename = Names.logoPng /\ att.size = 49 * 1024) => verdict.junk
    /\ (att.filename = Names.logoPng /\ att.size = 51 * 1024) => ~verdict.junk
    /\ (att.filename = Names.image001Png /\ att.size = 9 * 1024) => verdict.junk
    /\ (att.filename = Names.image001Png /\ att.size = 11 * 1024) => ~verdict.junk

\* logo.png of exactly 50*1024 bytes has been through the filter and is not
\* junk.
C14_Witness ==
  /\ Filtered
  /\ att.filename = Names.logoPng
  /\ att.size = 50 * 1024
  /\ ~verdict.junk

(***************************************************************************)
(* C15.  Every attachment below 50 KB is junk whenever its file name       *)
(* matches a pattern of rule 2 as the specification lists them:            *)
(* icon*.png/jpg/gif, a name containing atl-generated-, prestashop-logo or *)
(* cidForSAP, logo.*, spacer.*, pixel.*, tracking.* with any extension, or *)
(* a name starting with signature.                                         *)
(***************************************************************************)
C15_ListedPatternsAreJunk ==
  (Filtered /\ att.size < 50 * 1024 /\ AnyMatch(JUNK_GLOBS(att.filename))) =>
    verdict.junk

(***************************************************************************)
(* C15, amended.  Every attachment below 50 KB is junk whenever its file   *)
(* name matches one of the nine patterns of the code; a name only the      *)
(* looser list covers (icon-x.png, logo.svg, spacer.jpg, pixel.bmp,        *)
(* tracking.jpg, x-atl-generated-1.png, my-prestashop-logo.png) is not     *)
(* junk from 500 bytes on.                                                 *)
(***************************************************************************)
C15_CodePatternsAreJunk ==
  Filtered =>
    /\ (att.filename \in Rule2Names /\ att.size < 50 * 1024) => verdict.junk
    /\ (att.filename \in GlobOnlyNames /\ att.size >= 500) => ~verdict.junk

\* Signature-x.docx of 49 KB has been found junk, logo.svg of 49 KB not.
C15_Witness ==
  /\ Filtered
  /\ att.size = 49 * 1024
  /\ \/ att.filename = Names.signatureDocx /\ verdict.junk
     \/ att.filename = Names.logoSvg /\ ~verdict.junk

(***************************************************************************)
(* C16.  Every attachment of a fetched message that none of the three junk *)
(* rules matches is kept: the fetch pipeline attempts to save it.          *)
(***************************************************************************)
C16_NonJunkIsKept ==
  (Filtered /\ ~verdict.junk) => verdict.step # "dropped"

(***************************************************************************)
(* C16, amended.  The fetch pipeline attempts to save exactly the          *)
(* attachments of at least 1000 bytes with a relevant MIME type that none  *)
(* of the three junk rules matches; an attachment below 1000 bytes or of   *)
(* another MIME type is dropped even when no junk rule matches it.         *)
(***************************************************************************)
C16_KeptIffRelevantAndNotJunk ==
  Filtered =>
    /\ verdict.kept <=>
         /\ att.size >= 1000
         /\ att.mimeType \in {Mimes.pdf, Mimes.pngUpper, Mimes.docx}
         /\ ~verdict.junk
    /\ verdict.step = "dropped" <=> ~verdict.kept

\* image001.png of 11 KB, which no junk rule matches at that size, has been
\* saved.
C16_Witness ==
  /\ verdict.step = "saved"
  /\ att.filename = Names.image001Png
  /\ att.size = 11 * 1024
  /\ att.mimeType = Mimes.pngUpper
  /\ ~verdict.junk

\* The methods of SyncStateManager that change the state.
Mutators ==
  { "updateAccountState", "incrementStats", "incrementSentCount",
    "incrementDraftCount" }

(***************************************************************************)
(* C17.  After a SyncStateManager is constructed on any state file         *)
(* (missing, unreadable, not JSON, or JSON of any shape), its state has an *)
(* accounts map, so no method throws for want of one.                      *)
(***************************************************************************)
C17_StateHasAccounts ==
  /\ \A m \in Managers : mem[m].constructed => mem[m].kind \in {"default", "own"}
  /\ lastOp.threw => HasAccounts(lastOp.m)

(***************************************************************************)
(* C18.  Whenever a call of updateAccountState, incrementStats,            *)
(* incrementSentCount or incrementDraftCount returns having changed the    *)
(* state in memory, the file holds the serialization of the whole state    *)
(* as it is in memory now.                                                 *)
(***************************************************************************)
C18_ChangeIsWritten ==
  (lastOp.op \in Mutators /\ ~lastOp.threw /\ lastOp.changed) =>
    /\ lastOp.saved
    /\ disk = Stringify(AccountsOf(lastOp.m))
    /\ DOMAIN disk.accounts = DOMAIN AccountsOf(lastOp.m)

\* incrementSentCount has returned for one account of a state with two, and
\* both are in the file.
C18_Witness ==
  /\ lastOp.op = "incrementSentCount"
  /\ ~lastOp.threw
  /\ lastOp.changed
  /\ DOMAIN AccountsOf(lastOp.m) = Emails
  /\ DOMAIN disk.accounts = Emails

(***************************************************************************)
(* C19.  Two processes load the file, change their own copy and save it,   *)
(* without coordination: after each save the file is the state in memory   *)
(* of the process that saved last, and what only the other process had     *)
(* written is gone from the file.                                          *)
(***************************************************************************)
C19_LastWriterWins ==
  \A m \in Managers, q \in Managers :
    (/\ mem[m].constructed /\ mem[q].constructed
     /\ mem[m].proc # mem[q].proc
     /\ lastOp.m = m /\ lastOp.saved) =>
      /\ disk = Stringify(AccountsOf(m))
      /\ \A e \in Emails : e \notin DOMAIN AccountsOf(m) => e \notin DOMAIN disk.accounts

\* Process 2 saved an account at time 1; process 1, which had loaded the
\* file without it, saved at time 2: the account is in the memory of
\* process 2 and no longer in the file.
C19_Witness ==
  /\ mem[1].constructed /\ mem[2].constructed
  /\ mem[2].proc = 2
  /\ mem[2].savedAt = 1
  /\ now = 3
  /\ lastOp.m = 1 /\ lastOp.saved
  /\ \E e \in DOMAIN AccountsOf(2) : e \notin DOMAIN disk.accounts

\* An error ended the command: it reached main().catch, or the handler of
\* sendEmail or createDraft.
FatalError ==
  \/ cli.topLevel
  \/ cli.cmd \in {"send", "draft"} /\ cli.failure # "none"

(***************************************************************************)
(* C13.  For every command of the CLI the exit code is 1 when the          *)
(* credentials are missing or when an error ends the command at a          *)
(* top-level handler, and 0 in every other case.  (The exit code of the    *)
(* standalone forwarder is exitCode of Spec.)                              *)
(***************************************************************************)
C13_ExitCode ==
  cli.cmd # "none" =>
    /\ cli.exit \in {0, 1}
    /\ cli.exit = 1 <=> (cli.credentials = "missing" \/ FatalError)

\* The record of an account in the state file, all zero when there is none.
Persisted(e) ==
  IF disk.kind = "state" /\ e \in DOMAIN disk.accounts
  THEN disk.accounts[e]
  ELSE NewAccount(0)

(***************************************************************************)
(* C20.  After any sequence of fetch, send and draft commands, as long as  *)
(* no write of the state file has failed, the counters in the file equal   *)
(* the totals of the operations that succeeded: emailsSent the sends,      *)
(* draftsCreated the drafts, totalFetched and attachmentsSaved the         *)
(* messages and attachments of the completed fetches.                      *)
(***************************************************************************)
C20_CountersEqualTotals ==
  ~tally.saveFailed =>
    \A e \in Emails :
      /\ Persisted(e).emailsSent = Num(tally.ops[e].sent)
      /\ Persisted(e).draftsCreated = Num(tally.ops[e].drafts)
      /\ Persisted(e).totalFetched = Num(tally.ops[e].fetched)
      /\ Persisted(e).attachmentsSaved = Num(tally.ops[e].attachments)

\* The bytes of lines joined by line feeds, each line a sequence of bytes.
RECURSIVE JoinBytes(_)
JoinBytes(lines) ==
  IF Len(lines) = 0 THEN <<>>
  ELSE IF Len(lines) = 1 THEN lines[1]
  ELSE lines[1] \o <<10>> \o JoinBytes(Tail(lines))

(***************************************************************************)
(* C24.  The string forwardEmail submits has no '+', '/' or '=' and is the *)
(* base64url encoding of these lines in order: "To: " and the forwarding   *)
(* address, "Subject: Fwd: " and the original subject, "Content-Type:      *)
(* message/rfc822", one empty line, then the decoded original raw message. *)
(***************************************************************************)
C24_ForwardMessageFormat ==
  lastSent.valid =>
    LET m == messages[lastSent.id]
        subject == extractEmailInfo(m).subject
        decoded == Utf8Decode(m.rawBytes)
    IN
    /\ \A k \in 1..Len(lastSent.encoded) : lastSent.encoded[k] \notin {43, 47, 61}
    /\ Base64UrlDecode(lastSent.encoded) =
         JoinBytes(<< Utf8Encode(ToPrefix \o FORWARD_TO),
                      Utf8Encode(SubjectPrefix \o subject),
                      Utf8Encode(ContentTypeLine),
                      <<>>,
                      Utf8Encode(decoded) >>)

\* A message whose raw bytes are the two-byte encoding of one character has
\* been submitted.
C24_Witness ==
  /\ lastSent.valid
  /\ messages[lastSent.id].rawBytes = <<195, 169>>
  /\ Len(lastSent.encoded) > 0

(***************************************************************************)
(* C30.  Two SyncStateManager instances created in one process on state    *)
(* files that are missing or unreadable hold independent states: an        *)
(* updateAccountState through one does not change the accounts the other   *)
(* reads, and each new such instance starts with an empty accounts map.    *)
(***************************************************************************)
C30_IndependentStates ==
  [][ /\ \A m \in Managers, q \in Managers :
           (/\ m # q
            /\ mem[m].constructed /\ mem[q].constructed
            /\ mem[m].proc = mem[q].proc
            /\ mem[m].kind = "default" /\ mem[q].kind = "default"
            /\ now' = now + 1
            /\ lastOp'.m = m /\ lastOp'.op = "updateAccountState") =>
             AccountsOf(q)' = AccountsOf(q)
      /\ \A m \in Managers :
           (~mem[m].constructed /\ mem'[m].constructed /\ mem'[m].kind = "default") =>
             AccountsOf(m)' = EmptyMap ]_vars

\* The text ' has:attachment (rechnung OR invoice OR billing OR abrechnung OR
\* gutschrift OR faktura OR zahlungsaufforderung OR payment OR bestellung)'.
ExpectedQueryTail ==
  <<32, 104, 97, 115, 58, 97, 116, 116, 97, 99, 104, 109, 101, 110, 116, 32, 40, 114, 101, 99, 104, 110, 117, 110, 103, 32, 79, 82, 32, 105, 110, 118, 111, 105, 99, 101, 32, 79, 82, 32, 98, 105, 108, 108, 105, 110, 103, 32, 79, 82, 32, 97, 98, 114, 101, 99, 104, 110, 117, 110, 103, 32, 79, 82, 32, 103, 117, 116, 115, 99, 104, 114, 105, 102, 116, 32, 79, 82, 32, 102, 97, 107, 116, 117, 114, 97, 32, 79, 82, 32, 122, 97, 104, 108, 117, 110, 103, 115, 97, 117, 102, 102, 111, 114, 100, 101, 114, 117, 110, 103, 32, 79, 82, 32, 112, 97, 121, 109, 101, 110, 116, 32, 79, 82, 32, 98, 101, 115, 116, 101, 108, 108, 117, 110, 103, 41>>

\* The date with every '-' replaced by '/'.
RECURSIVE Slashed(_)
Slashed(d) ==
  IF d = <<>> THEN <<>>
  ELSE << IF Head(d) = 45 THEN 47 ELSE Head(d) >> \o Slashed(Tail(d))

(***************************************************************************)
(* C25.  For every --since value the search query is "after:" followed by  *)
(* the date with every '-' replaced by '/', then "has:attachment", then    *)
(* one parenthesised disjunction of the nine fixed keywords joined by      *)
(* " OR ", the three separated by one space, and nothing else.             *)
(***************************************************************************)
C25_QueryIsThreePredicates ==
  (query.step = "built" /\ Len(sinceArgs) = 2) =>
    /\ ~query.threw
    /\ query.text =
         <<97, 102, 116, 101, 114, 58>> \o Slashed(sinceArgs[2])
           \o ExpectedQueryTail

\* The query was built for a --since value with two '-'.
C25_Witness ==
  /\ query.step = "built"
  /\ Len(sinceArgs) = 2
  /\ sinceArgs[2] = <<50, 45, 50, 45>>

\* The calls that wrote a file whose sanitized name is n.
Written(n) == { k \in 1..Len(saves) : saves[k].safe = n /\ ~saves[k].threw }

(***************************************************************************)
(* C22.  saveAttachmentToFolder never writes to a path that existed before *)
(* the call: every file of the folder is still there with its content, a   *)
(* save that returns adds one file, and the saves of equal sanitized names *)
(* so far have written that many distinct paths.                           *)
(***************************************************************************)
C22_NeverOverwrites ==
  [][ /\ \A p \in DOMAIN folder : p \in DOMAIN folder' /\ folder'[p] = folder[p]
      /\ (saves' # saves /\ ~saves'[Len(saves')].threw) =>
           /\ saves'[Len(saves')].path \notin DOMAIN folder
           /\ Cardinality(DOMAIN folder') = Cardinality(DOMAIN folder) + 1
      /\ \A n \in { saves'[k].safe : k \in 1..Len(saves') } :
           LET W == { k \in 1..Len(saves') :
                        saves'[k].safe = n /\ ~saves'[k].threw }
           IN Cardinality({ saves'[k].path : k \in W }) = Cardinality(W) ]_vars

\* Three attachments whose sanitized names are 'a_a' were saved into a
\* folder that held files before.
C22_Witness ==
  /\ Cardinality(Written(<<97, 95, 97>>)) = MaxSaves
  /\ Cardinality({ saves[k].path : k \in Written(<<97, 95, 97>>) }) = MaxSaves
  /\ Cardinality(DOMAIN folder) > MaxSaves

\* The ids 1..n in listing order, without those in a set.
RECURSIVE ListedWithout(_, _)
ListedWithout(n, failed) ==
  IF n = 0 THEN <<>>
  ELSE IF n \in failed THEN ListedWithout(n - 1, failed)
  ELSE Append(ListedWithout(n - 1, failed), n)

\* The pages requested so far follow one another from the start of the
\* listing.
RECURSIVE InSequence(_, _)
InSequence(pages, from) ==
  \/ pages = <<>>
  \/ /\ Head(pages).from = from
     /\ InSequence(Tail(pages), from + Head(pages).length)

C27_Pass ==
  /\ InSequence(fetch.pages, 0)
  /\ fetch.messages = ListedWithout(fetch.gets, fetch.failed)
  /\ (Truthy(fetch.maxResults) /\ fetch.maxResults.v > 0) =>
        Len(fetch.messages) <= fetch.maxResults.v
  /\ fetch.pc = "returned" =>
       \/ /\ fetch.pageToken = Undefined
          /\ fetch.pages # <<>>
          /\ LET last == fetch.pages[Len(fetch.pages)]
             IN last.from + last.length = listing
       \/ /\ Truthy(fetch.maxResults)
          /\ Len(fetch.messages) >= fetch.maxResults.v
  /\ (fetch.pc = "returned"
        /\ ~(Truthy(fetch.maxResults)
               /\ Len(fetch.messages) >= fetch.maxResults.v)) =>
       fetch.gets = listing

(***************************************************************************)
(* C27.  fetchMessages makes one linear pass over the listing: the pages   *)
(* are requested in sequence, the call ends, and it returns when a page    *)
(* carries no nextPageToken or maxResults messages are collected; it never *)
(* returns more than a positive maxResults, and what it returns is the     *)
(* messages it asked for, in listing order, without those whose get        *)
(* failed.                                                                 *)
(***************************************************************************)
C27_LinearPass == [](C27_Pass) /\ <>(fetch.pc \in {"returned", "threw"})

\* A call with maxResults 3 returned 3 messages from two pages, one get
\* having failed.
C27_Witness ==
  /\ fetch.pc = "returned"
  /\ fetch.maxResults = Num(3)
  /\ Len(fetch.messages) = 3
  /\ Len(fetch.pages) = 2
  /\ fetch.failed # {}

(***************************************************************************)
(* C21.  When getAuthenticatedClient returns a client after a refresh or   *)
(* after interactive consent, the token file already holds the credentials *)
(* set on that client, written during the call; when it returns the stored *)
(* token's client, the token file has not been written.                    *)
(***************************************************************************)
C21_SavedBeforeReturn ==
  [][ (auth.pc # "returned" /\ auth'.pc = "returned") =>
        /\ auth'.path \in {"refresh", "interactive"} =>
             /\ tokenFile' = TokenFile("json", client')
             /\ auth'.writes >= 1
        /\ auth'.path = "stored" =>
             /\ auth'.writes = 0
             /\ tokenFile' = tokenFile ]_vars

\* The client was returned after a consent whose token was saved.
C21_Witness ==
  /\ auth.pc = "returned"
  /\ auth.path = "interactive"
  /\ tokenFile = TokenFile("json", client)
  /\ client.access_token.origin = "exchanged"

(***************************************************************************)
(* C28.  The interactive flow settles once: it is resolved only after a    *)
(* callback with a code whose token was saved, it is rejected once the     *)
(* handler of a callback with an error or of a failed token exchange has   *)
(* ended, and whenever it has settled the callback server is closed.       *)
(***************************************************************************)
C28_SettlesOnce ==
  /\ flow.settled = "resolved" => \E r \in Requests : callbacks[r] = "saved"
  /\ flow.settled \in {"resolved", "error", "exchange", "timeout"} =>
       flow.server = "closed"
  /\ \A r \in Requests :
       callbacks[r] \in {"error", "failed", "threw"} =>
         flow.settled \in {"error", "exchange", "timeout", "resolved"}

(***************************************************************************)
(* C29.  A flow rejected by the timeout writes no token file afterwards.   *)
(***************************************************************************)
C29_NoSaveAfterTimeout == ~(flow.settled = "timeout" /\ flow.lateSave)

(***************************************************************************)
(* C23.  The window of a fetch without --force and without a start date    *)
(* never starts later than the completion of the account's previous        *)
(* successful fetch, nor later than that fetch's end date, whatever        *)
(* commands ran in between.                                                *)
(***************************************************************************)
C23_WindowCoversGap ==
  (cli.cmd = "fetch" /\ ~cli.run.forceHistorical
     /\ cli.run.startArg = Undefined) =>
    \A k \in 1..Len(cli.run.results) :
      LET r == cli.run.results[k]
          p == cli.run.previous[r.email]
      IN (r.listed /\ p.done) =>
           /\ r.start <= p.completed
           /\ r.start <= p.endDate

\* The record of an account in a state file, undefined when there is none.
RecordOf(file, e) ==
  IF file.kind = "state" /\ e \in DOMAIN file.accounts
  THEN file.accounts[e]
  ELSE Undefined

\* The number of attachments of a batch, and of those that were saved.
RECURSIVE AttachmentsOf(_, _)
AttachmentsOf(batch, which) ==
  IF batch = <<>> THEN 0
  ELSE Cardinality({ k \in 1..Len(Head(batch)) : Head(batch)[k] \in which })
         + AttachmentsOf(Tail(batch), which)

(***************************************************************************)
(* C26.  In a fetch run that got to its accounts every account of the key  *)
(* is fetched; in each account whose messages were processed every        *)
(* attachment is tried and the count of saved attachments is the number of *)
(* those that did not fail; an account that failed is not counted and its  *)
(* record in the state file is what it was before the run.                 *)
(***************************************************************************)
C26_FailuresAreContained ==
  (cli.cmd = "fetch" /\ cli.failure # "mkdir") =>
    /\ Len(cli.run.results) = Len(getAccounts(cli.account))
    /\ \A k \in 1..Len(cli.run.results) :
         LET r == cli.run.results[k]
         IN /\ r.looped =>
                 /\ r.tried = AttachmentsOf(r.batch, BOOLEAN)
                 /\ r.attachmentCount = AttachmentsOf(r.batch, {TRUE})
            /\ r.failure # "none" =>
                 /\ tally.ops[r.email].fetched = 0
                 /\ RecordOf(disk, r.email) = RecordOf(cli.run.before, r.email)

====
